---- MODULE Spec2Model ----
(***************************************************************************)
(* Task / project / checklist tracker: the route handlers of the REST API  *)
(* over the single shared SQLite connection of the Database class.         *)
(*                                                                         *)
(* Every awaited database statement of a handler is one atomic step; the   *)
(* steps of different in-flight requests interleave freely, as they do on  *)
(* the node event loop.  All statements go through the one connection, so  *)
(* `db` is the state every statement of every request reads and writes,    *)
(* and BEGIN / COMMIT / ROLLBACK act on that connection as a whole.        *)
(*                                                                         *)
(* A handler is one definition; each of its disjuncts is one awaited       *)
(* statement, taken at the position req[r].pc names.                       *)
(***************************************************************************)
EXTENDS Integers, FiniteSets, Sequences, TLC

\* ------------------------------------------------------------------ bounds
NumReq == 2          \* request slots: handlers that can be in flight together
MaxGen == 1          \* ids generateId() hands out while the server runs
MaxFaults == 1       \* statements of a cascade that the engine may fail
MaxInserts == 1      \* rows a project, link or milestone table takes on top of the stored ones
MaxRacing == 2       \* rows a table takes that two creates in flight both write to
MaxChanged == 1      \* rows that differ from the stored ones, or are gone, at any one time
MaxGone == 3         \* stored rows that deletes have removed at any one time
MaxCreated == 2      \* rows the create routes have added at any one time
MaxTouched == 2      \* daily task and progress rows removed, added or changed at any one time

Reqs == 1..NumReq

VARIABLES
  db,      \* the tables as the shared connection sees them
  txn,     \* the connection's transaction: open flag, owner, state at BEGIN
  req,     \* request slots: the handler running in each and its position
  gen,     \* number of ids generateId() has produced
  faults   \* number of statement failures injected so far

vars == <<db, txn, req, gen, faults>>

\* ------------------------------------------------------------------ schema
\* The tables whose id is INTEGER PRIMARY KEY AUTOINCREMENT.  SQLite keeps the
\* largest id handed out per table in sqlite_sequence, a table of the same
\* database file.
AutoTables == {"tasks", "articles", "projects", "project_tasks",
               "project_milestones", "resource_allocations", "daily_tasks",
               "daily_progress_reports", "daily_task_progress"}

\* createTables: every table starts empty.  Rows carry the columns the
\* handlers below read or write.
EmptyDb ==
  [ checklists             |-> {},   \* [id, title, description, theme]
    checklist_tasks        |-> {},   \* [id, checklist_id, title, priority, completed]
    subtasks               |-> {},   \* [id, task_id, title, completed]
    tasks                  |-> {},   \* [id, name, creator, status, approver, timer, completed, updated_at]
    projects               |-> {},   \* [id, name, start_date, end_date]
    project_tasks          |-> {},   \* [id, project_id, task_id]
    project_milestones     |-> {},   \* [id, project_id, title, completed]
    resource_allocations   |-> {},   \* [id, project_id, resource_name, role]
    articles               |-> {},   \* [id, headline, link]
    daily_tasks            |-> {},   \* [id, status, actual_hours]
    daily_task_progress    |-> {},   \* [id, daily_task_id, hours_spent]
    daily_progress_reports |-> {},   \* [id, reporter_name, report_date]
    seq                    |-> [t \in AutoTables |-> 0] ]  \* AUTOINCREMENT counters

\* sqlite_sequence as earlier runs left it: the largest id each table has
\* handed out.
StoredSeq ==
  [t \in AutoTables |->
     CASE t = "project_tasks" -> 3
       [] t \in {"tasks", "projects", "daily_tasks"} -> 2
       [] OTHER -> 1]

\* A tasks row as POST /api/tasks inserts it: the column defaults of the
\* table, NULL for approver and timer.  updated_at is 0 for the stamp of the
\* insert and 1 once update_tasks_timestamp has restamped the row.
TaskRow(id, name, creator) ==
  [id |-> id, name |-> name, creator |-> creator, status |-> "pending",
   approver |-> "NULL", timer |-> "NULL", completed |-> 0, updated_at |-> 0]

\* A checklists row as POST /api/checklists inserts it.
ChecklistRow(id, title, description, theme) ==
  [id |-> id, title |-> title, description |-> description, theme |-> theme]

\* A checklist_tasks row as POST /api/checklists/:id/tasks inserts it:
\* completed takes the column default 0.
ChecklistTaskRow(id, cid, title, priority) ==
  [id |-> id, checklist_id |-> cid, title |-> title, priority |-> priority,
   completed |-> 0]

\* A subtasks row as POST .../subtasks inserts it.
SubtaskRow(id, tid, title) ==
  [id |-> id, task_id |-> tid, title |-> title, completed |-> 0]

\* A projects row as POST /api/projects inserts it.  A DATE column holds
\* <<>> for NULL and <<n>> for day n.
ProjectRow(id, name, start, end) ==
  [id |-> id, name |-> name, start_date |-> start, end_date |-> end]

\* A project_milestones row as POST /api/projects/:id/milestones inserts it.
MilestoneRow(id, pid, title) ==
  [id |-> id, project_id |-> pid, title |-> title, completed |-> 0]

\* A resource_allocations row as POST /api/projects/:id/resources inserts it.
ResourceRow(id, pid, name, role) ==
  [id |-> id, project_id |-> pid, resource_name |-> name, role |-> role]

\* The database file outlives the process (CREATE TABLE IF NOT EXISTS): after
\* init() the tables hold what earlier runs stored.
\*   checklists: two, the first with a task that has a subtask, the second
\*     with a task;
\*   projects: two, and two tasks; project 1 has a milestone, a resource and
\*     both tasks, project 2 has task 1; (project 2, task 2) is not linked;
\*   daily tasks: task 1 without progress, task 2 with one progress row of 3
\*     hours and actual_hours brought up to it;
\*   one article and one progress report.
StoredDb ==
  [EmptyDb EXCEPT
    !.checklists      = {ChecklistRow(1, "Home", "Chores", "green"),
                         ChecklistRow(4, "Work", "", "blue")},
    !.checklist_tasks = {ChecklistTaskRow(2, 1, "Sweep", "Medium"),
                         ChecklistTaskRow(5, 4, "Email", "High")},
    !.subtasks        = {SubtaskRow(3, 2, "Broom")},
    !.projects             = {ProjectRow(1, "Site", <<1>>, <<2>>),
                              ProjectRow(2, "Shop", <<>>, <<>>)},
    !.tasks                = {TaskRow(1, "Write report", "Ann"), TaskRow(2, "Review", "Bob")},
    !.project_tasks        = {[id |-> 1, project_id |-> 1, task_id |-> 1],
                              [id |-> 2, project_id |-> 1, task_id |-> 2],
                              [id |-> 3, project_id |-> 2, task_id |-> 1]},
    !.project_milestones   = {MilestoneRow(1, 1, "Alpha")},
    !.resource_allocations = {ResourceRow(1, 1, "Ann", "dev")},
    !.daily_tasks          = {[id |-> 1, status |-> "pending", actual_hours |-> 0],
                              [id |-> 2, status |-> "pending", actual_hours |-> 3]},
    !.daily_task_progress  = {[id |-> 1, daily_task_id |-> 2, hours_spent |-> 3]},
    !.articles = {[id |-> 1, headline |-> "Hello world", link |-> "http://a"]},
    !.daily_progress_reports =
       {[id |-> 1, reporter_name |-> "Ann", report_date |-> "2024-01-01"]},
    !.seq = StoredSeq]

\* generateId(): a token no stored row carries and that was not handed out before.
FreshId(g) == 5 + g + 1

\* The ids a request can name in its URL for table t: those of the rows on
\* display, and 0 for an id that no row carries.
Ids(d, t) == {x.id : x \in d[t]} \cup {0}

NoTxn == [open |-> FALSE, owner |-> 0, snap |-> EmptyDb]

\* req.body when the handler has none, or no further use for it.
NoBody == [k \in {} |-> 0]

IdleReq == [op |-> "none", pc |-> "idle", a |-> 0, b |-> 0, c |-> 0,
            body |-> NoBody, tmp |-> 0, status |-> 0]

\* ------------------------------------------------------------------ statements
\* database.get('SELECT * FROM <t> WHERE id = ?') finds a row.
ById(d, t, id) == \E x \in d[t] : x.id = id

\* SELECT * FROM checklist_tasks WHERE id = ? AND checklist_id = ?
ChecklistTaskExists(d, tid, cid) ==
  \E t \in d.checklist_tasks : t.id = tid /\ t.checklist_id = cid

\* SELECT id FROM checklist_tasks WHERE checklist_id = ?
TasksOfChecklist(d, cid) == {t.id : t \in {x \in d.checklist_tasks : x.checklist_id = cid}}

\* Mutant: PRAGMA foreign_keys is left off and no row goes with its parent.
ForeignKeys_Off(d) == d

\* ON DELETE CASCADE of every foreign key, under PRAGMA foreign_keys = ON:
\* a row whose parent is no longer there goes with it (checklist tasks with
\* their checklist, subtasks with their checklist task, links, milestones and
\* resources with their project, links with their task, progress rows with
\* their daily task).
ForeignKeys(d) ==
  LET kept == {t \in d.checklist_tasks : \E x \in d.checklists : x.id = t.checklist_id}
  IN [d EXCEPT
       !.checklist_tasks = kept,
       !.subtasks = {s \in @ : \E t \in kept : t.id = s.task_id},
       !.project_tasks = {l \in @ : /\ \E p \in d.projects : p.id = l.project_id
                                    /\ \E t \in d.tasks : t.id = l.task_id},
       !.project_milestones = {m \in @ : \E p \in d.projects : p.id = m.project_id},
       !.resource_allocations = {a \in @ : \E p \in d.projects : p.id = a.project_id},
       !.daily_task_progress = {p \in @ : \E t \in d.daily_tasks : t.id = p.daily_task_id}]

\* Mutant: the row goes and the rows that refer to it stay.
DeleteRow_NoCascade(d, t, id) == [d EXCEPT ![t] = {x \in @ : x.id # id}]

\* DELETE FROM <t> WHERE id = ?
DeleteRow(d, t, id) == ForeignKeys([d EXCEPT ![t] = {x \in @ : x.id # id}])

\* DELETE FROM subtasks WHERE task_id IN
\*   (SELECT id FROM checklist_tasks WHERE checklist_id = ?)
DeleteSubtasksOfChecklist(d, cid) ==
  [d EXCEPT !.subtasks = {s \in @ : s.task_id \notin TasksOfChecklist(d, cid)}]

\* Mutant: the WHERE clause is lost and every checklist's tasks go.
DeleteTasksOfChecklist_NoWhere(d, cid) ==
  ForeignKeys([d EXCEPT !.checklist_tasks = {}])

\* DELETE FROM checklist_tasks WHERE checklist_id = ?
DeleteTasksOfChecklist(d, cid) ==
  ForeignKeys([d EXCEPT !.checklist_tasks = {t \in @ : t.checklist_id # cid}])

\* DELETE FROM subtasks WHERE task_id = ?
DeleteSubtasksOfTask(d, tid) ==
  [d EXCEPT !.subtasks = {s \in @ : s.task_id # tid}]

\* DELETE FROM checklist_tasks WHERE id = ? AND checklist_id = ?
DeleteChecklistTaskRow(d, tid, cid) ==
  ForeignKeys(
    [d EXCEPT !.checklist_tasks = {t \in @ : ~(t.id = tid /\ t.checklist_id = cid)}])

\* Mutant: the cascade also removes the tasks the project was linked to.
DeleteOfProject_WithTasks(d, t, pid) ==
  [d EXCEPT
    ![t] = {x \in @ : x.project_id # pid},
    !.tasks = IF t = "project_tasks"
                THEN {x \in @ : ~\E l \in d.project_tasks :
                                    l.project_id = pid /\ l.task_id = x.id}
                ELSE @]

\* DELETE FROM <t> WHERE project_id = ?, for resource_allocations,
\* project_milestones and project_tasks.
DeleteOfProject(d, t, pid) == [d EXCEPT ![t] = {x \in @ : x.project_id # pid}]

\* Mutant: the duplicate check never finds the pair.
LinkExists_Never(d, pid, tid) == FALSE

\* SELECT * FROM project_tasks WHERE project_id = ? AND task_id = ?
LinkExists(d, pid, tid) ==
  \E l \in d.project_tasks : l.project_id = pid /\ l.task_id = tid

\* Mutant: the task_id condition is lost and all links of the project go.
DeleteLink_AnyTask(d, pid, tid) ==
  [d EXCEPT !.project_tasks = {l \in @ : l.project_id # pid}]

\* DELETE FROM project_tasks WHERE project_id = ? AND task_id = ?
DeleteLink(d, pid, tid) ==
  [d EXCEPT !.project_tasks = {l \in @ : ~(l.project_id = pid /\ l.task_id = tid)}]

\* The engine accepts the INSERT INTO project_tasks: both foreign keys resolve
\* and UNIQUE(project_id, task_id) is kept.
LinkInsertAccepted(d, pid, tid) ==
  /\ \E x \in d.projects : x.id = pid
  /\ \E x \in d.tasks : x.id = tid
  /\ ~\E l \in d.project_tasks : l.project_id = pid /\ l.task_id = tid

\* INSERT INTO <t> (id, ...) with an id from generateId().
InsertWithId(d, t, row) == [d EXCEPT ![t] = @ \cup {row}]

\* INSERT INTO <t> (...) of an AUTOINCREMENT table: the row takes the next id,
\* which result.lastID reports.
InsertRow(d, t, cols) ==
  [d EXCEPT ![t] = @ \cup {("id" :> (d.seq[t] + 1)) @@ cols},
            !.seq[t] = @ + 1]

\* The table t still takes a row within the bound n of the model.
HasRoom(d, t, n) == d.seq[t] < StoredSeq[t] + n

\* The trigger update_<t>_timestamp restamps the rows an UPDATE touches.
Restamp(row) ==
  [k \in DOMAIN row |-> IF k = "updated_at" THEN 1 ELSE row[k]]

\* sqlite3 binds a JavaScript boolean as the integer 1 or 0; strings and
\* numbers are bound as they are.
SqlBind(k, v) == IF k = "completed" THEN (IF v THEN 1 ELSE 0) ELSE v

\* String.prototype.trim and Joi's trim(): the blanks at both ends go.
RECURSIVE Trim(_)
Trim(s) ==
  IF Len(s) > 0 /\ SubSeq(s, 1, 1) = " " THEN Trim(SubSeq(s, 2, Len(s)))
  ELSE IF Len(s) > 0 /\ SubSeq(s, Len(s), Len(s)) = " "
    THEN Trim(SubSeq(s, 1, Len(s) - 1))
    ELSE s

\* The CHECK constraints of createTables on the columns the rows carry.
CheckConstraints(t, row) ==
  CASE t = "tasks" -> /\ Len(row.name) >= 3 /\ Len(row.creator) >= 2
                      /\ row.status \in {"pending", "approved", "rejected"}
    [] t = "articles" -> Len(row.headline) >= 5
    [] t = "checklists" -> Len(row.title) >= 3
    [] t = "checklist_tasks" -> row.priority \in {"High", "Medium", "Low"}
    [] t = "subtasks" -> Len(row.title) >= 2
    [] t = "projects" -> Len(row.name) >= 3
    [] t = "project_milestones" -> Len(row.title) >= 3
    [] t = "resource_allocations" -> Len(row.resource_name) >= 2
    [] t = "daily_tasks" -> row.status \in {"pending", "in-progress", "completed", "blocked"}
    [] OTHER -> TRUE

\* UPDATE <t> SET <k> = ?, ... WHERE id = ?, one assignment per key of the
\* body.
UpdateRow(d, t, id, body) ==
  [d EXCEPT ![t] =
     {IF x.id = id
        THEN Restamp([k \in DOMAIN x |->
                        IF k \in DOMAIN body THEN SqlBind(k, body[k]) ELSE x[k]])
        ELSE x : x \in @}]

\* ------------------------------------------------------------------ requests
\* The handler in slot r moves on to its next statement.
Goto(r, pc) == req' = [req EXCEPT ![r].pc = pc]

\* The handler in slot r sends its response and returns.
Respond(r, code) ==
  req' = [req EXCEPT ![r].pc = "done", ![r].tmp = 0, ![r].body = NoBody,
                     ![r].status = code]

At(r, op, pc) == req[r].op = op /\ req[r].pc = pc

\* A request arrives in the free slot r and its handler is entered: a and b
\* are its URL parameters, body its validated req.body.
Enter(r, op, a, b, body, pc) ==
  req' = [req EXCEPT ![r] = [op |-> op, pc |-> pc, a |-> a, b |-> b, c |-> 0,
                             body |-> body, tmp |-> 0, status |-> 0]]

\* A request arrives in the free slot r and its handler responds at its first
\* statement.
EnterDone(r, op, a, b, body, code) ==
  req' = [req EXCEPT ![r] = [op |-> op, pc |-> "done", a |-> a, b |-> b, c |-> 0,
                             body |-> body, tmp |-> 0, status |-> code]]

Idle(r) == req[r].pc = "idle"

\* The response has been delivered; the slot is free for the next request.
Finish(r) ==
  /\ req[r].pc = "done"
  /\ req' = [req EXCEPT ![r] = IdleReq]
  /\ UNCHANGED <<db, txn, gen, faults>>

\* ------------------------------------------------------------------ Database.transaction
\* await this.run('BEGIN TRANSACTION'): SQLite refuses a BEGIN while the
\* connection already has a transaction open; that rejection is thrown before
\* the try block, so neither COMMIT nor ROLLBACK follows it and the handler's
\* catch answers 500.
TxnBegin(r, op, a, b, pc) ==
  IF ~txn.open
    THEN /\ txn' = [open |-> TRUE, owner |-> r, snap |-> db]
         /\ Enter(r, op, a, b, NoBody, pc)
    ELSE /\ UNCHANGED txn
         /\ EnterDone(r, op, a, b, NoBody, 500)

\* await this.run('COMMIT'); the handler answers 200.
TxnCommit(r) ==
  /\ req[r].pc = "commit"
  /\ txn' = NoTxn
  /\ Respond(r, 200)
  /\ UNCHANGED <<db, gen, faults>>

\* await this.run('ROLLBACK'); throw error: the connection goes back to its
\* state at BEGIN, whichever request issued the statements since, and the
\* handler's catch answers 404 for '... not found' and 500 otherwise.
TxnRollback(r) ==
  /\ req[r].pc = "rollback"
  /\ db' = txn.snap
  /\ txn' = NoTxn
  /\ Respond(r, req[r].tmp)
  /\ UNCHANGED <<gen, faults>>

\* The engine fails the statement the callback in slot r is about to run
\* (I/O error, full disk): the callback rejects and Database.transaction goes
\* to its catch block.
Fault(r) ==
  /\ txn.open /\ txn.owner = r
  /\ req[r].pc \notin {"commit", "rollback"}
  /\ faults < MaxFaults
  /\ faults' = faults + 1
  /\ req' = [req EXCEPT ![r].pc = "rollback", ![r].tmp = 500]
  /\ UNCHANGED <<db, txn, gen>>

Init ==
  /\ db = StoredDb
  /\ txn = NoTxn
  /\ req = [r \in Reqs |-> IdleReq]
  /\ gen = 0
  /\ faults = 0

\* ================================================================== checklists
\* The bodies clients send to the create routes that take a title or a
\* resource_name: one that passes, one too short once trimmed and, for
\* checklists, one that names another column only.
RawBodies ==
  [checklists |-> {[title |-> "Plan"], [title |-> " a "], [description |-> "Later"]},
   subtasks |-> {[title |-> "Dial"], [title |-> " b "]},
   milestones |-> {[title |-> "Beta"], [title |-> " ab "]},
   resources |-> {[resource_name |-> "Bo", role |-> "qa"],
                  [resource_name |-> " c ", role |-> "qa"]}]

\* Mutant: validate(checklistSchema) lets every body with a title through.
ValidateChecklist_Lax(raw) ==
  [ok |-> "title" \in DOMAIN raw,
   value |-> [title |-> IF "title" \in DOMAIN raw THEN raw.title ELSE "",
              description |-> "", theme |-> "blue"]]

\* validate(checklistSchema): title and description are trimmed, then
\* checked; description and theme take their defaults; the converted value
\* replaces req.body.
ValidateChecklist(raw) ==
  LET value == [title |-> IF "title" \in DOMAIN raw THEN Trim(raw.title) ELSE "",
                description |-> IF "description" \in DOMAIN raw
                                  THEN Trim(raw.description) ELSE "",
                theme |-> IF "theme" \in DOMAIN raw THEN raw.theme ELSE "blue"]
  IN [ok |-> /\ "title" \in DOMAIN raw
             /\ Len(value.title) >= 3 /\ Len(value.title) <= 255
             /\ "description" \in DOMAIN raw => Len(value.description) >= 1
             /\ value.theme \in {"blue", "green", "purple", "red", "yellow", "indigo"},
      value |-> value]

\* validate(subtaskSchema): the title is trimmed, then checked.
ValidateSubtask(raw) ==
  LET value == [title |-> Trim(raw.title)]
  IN [ok |-> Len(value.title) >= 2 /\ Len(value.title) <= 255, value |-> value]

\* ------------------------------------------------------------------ POST /api/checklists
\* A CHECK the engine trips on the INSERT is answered by the catch, 500.
ChecklistCreate(r) ==
  \/ /\ Idle(r)
     /\ \E raw \in RawBodies.checklists :
          LET v == ValidateChecklist(raw)
              row == ChecklistRow(FreshId(gen), Trim(v.value.title),
                                  v.value.description, v.value.theme)
          IN IF ~v.ok
               THEN /\ EnterDone(r, "checklistCreate", 0, 0, raw, 400)
                    /\ UNCHANGED <<db, gen>>
               ELSE IF ~CheckConstraints("checklists", row)
                 THEN /\ EnterDone(r, "checklistCreate", 0, 0, raw, 500)
                      /\ UNCHANGED <<db, gen>>
                 ELSE /\ gen < MaxGen
                      /\ gen' = gen + 1
                      /\ db' = InsertWithId(db, "checklists", row)
                      /\ Enter(r, "checklistCreate", FreshId(gen), 0, NoBody, "get")
     /\ UNCHANGED <<txn, faults>>
     \* const checklist = await database.get(...); checklist.tasks = [] throws
     \* when the row is no longer there.
  \/ /\ At(r, "checklistCreate", "get")
     /\ Respond(r, IF ById(db, "checklists", req[r].a) THEN 201 ELSE 500)
     /\ UNCHANGED <<db, txn, gen, faults>>

\* ------------------------------------------------------------------ DELETE /api/checklists/:id
ChecklistDelete(r) ==
  \/ /\ Idle(r)
     /\ \E id \in Ids(db, "checklists") :
          TxnBegin(r, "checklistDelete", id, 0, "delSubtasks")
     /\ UNCHANGED <<db, gen, faults>>
  \/ /\ At(r, "checklistDelete", "delSubtasks")
     /\ db' = DeleteSubtasksOfChecklist(db, req[r].a)
     /\ Goto(r, "delTasks")
     /\ UNCHANGED <<txn, gen, faults>>
  \/ /\ At(r, "checklistDelete", "delTasks")
     /\ db' = DeleteTasksOfChecklist(db, req[r].a)
     /\ Goto(r, "delChecklist")
     /\ UNCHANGED <<txn, gen, faults>>
     \* result.changes === 0 throws 'Checklist not found'.
  \/ /\ At(r, "checklistDelete", "delChecklist")
     /\ db' = DeleteRow(db, "checklists", req[r].a)
     /\ IF ById(db, "checklists", req[r].a)
          THEN Goto(r, "commit")
          ELSE req' = [req EXCEPT ![r].pc = "rollback", ![r].tmp = 404]
     /\ UNCHANGED <<txn, gen, faults>>

\* ------------------------------------------------------------------ POST /api/checklists/:id/tasks
ChecklistTaskAdd(r) ==
  \/ /\ Idle(r)
     /\ \E cid \in Ids(db, "checklists") :
          IF ById(db, "checklists", cid)
            THEN Enter(r, "taskAdd", cid, 0, NoBody, "insert")
            ELSE EnterDone(r, "taskAdd", cid, 0, NoBody, 404)
     /\ UNCHANGED <<db, txn, gen, faults>>
     \* The insert is refused by the foreign key when the checklist is gone.
  \/ /\ At(r, "taskAdd", "insert")
     /\ gen < MaxGen
     /\ gen' = gen + 1
     /\ IF ById(db, "checklists", req[r].a)
          THEN /\ db' = InsertWithId(db, "checklist_tasks",
                                     ChecklistTaskRow(FreshId(gen), req[r].a, "Call", "Medium"))
               /\ req' = [req EXCEPT ![r].pc = "get", ![r].b = FreshId(gen)]
          ELSE /\ db' = db
               /\ Respond(r, 500)
     /\ UNCHANGED <<txn, faults>>
     \* task.subtasks = [] throws when the row is no longer there.
  \/ /\ At(r, "taskAdd", "get")
     /\ Respond(r, IF ById(db, "checklist_tasks", req[r].b) THEN 201 ELSE 500)
     /\ UNCHANGED <<db, txn, gen, faults>>

\* ------------------------------------------------------------------ POST /api/checklists/:checklistId/tasks/:taskId/subtasks
SubtaskAdd(r) ==
  \/ /\ Idle(r)
     /\ \E cid \in Ids(db, "checklists"), tid \in Ids(db, "checklist_tasks"),
           raw \in RawBodies.subtasks :
          IF ~ValidateSubtask(raw).ok
            THEN EnterDone(r, "subtaskAdd", cid, tid, raw, 400)
            ELSE IF ChecklistTaskExists(db, tid, cid)
              THEN Enter(r, "subtaskAdd", cid, tid, ValidateSubtask(raw).value, "insert")
              ELSE EnterDone(r, "subtaskAdd", cid, tid, raw, 404)
     /\ UNCHANGED <<db, txn, gen, faults>>
     \* The insert is refused by the foreign key when the task is gone, and by
     \* the CHECK on the title; the catch answers 500 to both.
  \/ /\ At(r, "subtaskAdd", "insert")
     /\ gen < MaxGen
     /\ gen' = gen + 1
     /\ LET row == SubtaskRow(FreshId(gen), req[r].b, Trim(req[r].body.title))
        IN IF ById(db, "checklist_tasks", req[r].b) /\ CheckConstraints("subtasks", row)
             THEN /\ db' = InsertWithId(db, "subtasks", row)
                  /\ req' = [req EXCEPT ![r].pc = "get", ![r].c = FreshId(gen),
                                        ![r].body = NoBody]
             ELSE /\ db' = db
                  /\ Respond(r, 500)
     /\ UNCHANGED <<txn, faults>>
     \* The row read back is sent as it is, found or not.
  \/ /\ At(r, "subtaskAdd", "get")
     /\ Respond(r, 201)
     /\ UNCHANGED <<db, txn, gen, faults>>

\* ------------------------------------------------------------------ DELETE /api/checklists/:checklistId/tasks/:taskId
ChecklistTaskDelete(r) ==
  \/ /\ Idle(r)
     /\ \E cid \in Ids(db, "checklists"), tid \in Ids(db, "checklist_tasks") :
          TxnBegin(r, "taskDelete", cid, tid, "delSubtasks")
     /\ UNCHANGED <<db, gen, faults>>
  \/ /\ At(r, "taskDelete", "delSubtasks")
     /\ db' = DeleteSubtasksOfTask(db, req[r].b)
     /\ Goto(r, "delTask")
     /\ UNCHANGED <<txn, gen, faults>>
     \* result.changes === 0 throws 'Task not found'.
  \/ /\ At(r, "taskDelete", "delTask")
     /\ db' = DeleteChecklistTaskRow(db, req[r].b, req[r].a)
     /\ IF ChecklistTaskExists(db, req[r].b, req[r].a)
          THEN Goto(r, "commit")
          ELSE req' = [req EXCEPT ![r].pc = "rollback", ![r].tmp = 404]
     /\ UNCHANGED <<txn, gen, faults>>

\* ------------------------------------------------------------------ GET /api/checklists/:id
\* checklist.tasks = await database.all(...); then one SELECT of subtasks per
\* task.  The reads change nothing; the handler answers 200 with what it read.
ChecklistGet(r) ==
  \/ /\ Idle(r)
     /\ \E id \in Ids(db, "checklists") :
          IF ById(db, "checklists", id)
            THEN Enter(r, "checklistGet", id, 0, NoBody, "tasks")
            ELSE EnterDone(r, "checklistGet", id, 0, NoBody, 404)
     /\ UNCHANGED <<db, txn, gen, faults>>
  \/ /\ At(r, "checklistGet", "tasks")
     /\ IF TasksOfChecklist(db, req[r].a) = {}
          THEN Respond(r, 200)
          ELSE req' = [req EXCEPT ![r].pc = "subtasks",
                                  ![r].tmp = Cardinality(TasksOfChecklist(db, req[r].a))]
     /\ UNCHANGED <<db, txn, gen, faults>>
  \/ /\ At(r, "checklistGet", "subtasks")
     /\ IF req[r].tmp = 1
          THEN Respond(r, 200)
          ELSE req' = [req EXCEPT ![r].tmp = @ - 1]
     /\ UNCHANGED <<db, txn, gen, faults>>

\* ------------------------------------------------------------------ checklist family
\* Checklists, their tasks and subtasks being created while checklists are
\* deleted.
NextChecklist ==
  \E r \in Reqs :
    \/ ChecklistCreate(r)
    \/ ChecklistTaskAdd(r)
    \/ SubtaskAdd(r)
    \/ ChecklistDelete(r)
    \/ TxnCommit(r)
    \/ TxnRollback(r)
    \/ Finish(r)

SpecChecklist == Init /\ [][NextChecklist]_vars

\* The tokens of the rows that belong to checklist cid in d: the checklist, its
\* tasks and their subtasks.
RowsOfChecklist(d, cid) ==
  {x.id : x \in {y \in d.checklists : y.id = cid}}
    \cup TasksOfChecklist(d, cid)
    \cup {s.id : s \in {x \in d.subtasks : x.task_id \in TasksOfChecklist(d, cid)}}

AllChecklistRows(d) ==
  {x.id : x \in d.checklists} \cup {t.id : t \in d.checklist_tasks}
    \cup {s.id : s \in d.subtasks}

\* Every subtask refers to a checklist task and every checklist task to a
\* checklist.
NoOrphans(d) ==
  /\ \A s \in d.subtasks : \E t \in d.checklist_tasks : t.id = s.task_id
  /\ \A t \in d.checklist_tasks : \E x \in d.checklists : x.id = t.checklist_id

\* The handler op in slot r takes the step it has at position pc.
Step(r, op, pc) == At(r, op, pc) /\ req'[r] # req[r]

\* C1: when DELETE /api/checklists/:id answers 200, the checklist, its N tasks
\* and their M subtasks are gone (every row the checklist owned when the
\* cascade began, and no row is left that refers to it), and no statement of
\* the cascade removes a row of another checklist.
C1_CascadeStep ==
  \A r \in Reqs :
    /\ Step(r, "checklistDelete", "commit") =>
         /\ req'[r].status = 200
         /\ RowsOfChecklist(txn.snap, req[r].a) \cap AllChecklistRows(db') = {}
         /\ RowsOfChecklist(db', req[r].a) = {}
         /\ NoOrphans(db')
    /\ (\/ Step(r, "checklistDelete", "delSubtasks")
        \/ Step(r, "checklistDelete", "delTasks")
        \/ Step(r, "checklistDelete", "delChecklist")) =>
         (AllChecklistRows(db) \ AllChecklistRows(db')) \subseteq RowsOfChecklist(db, req[r].a)

C1_ChecklistDeleteRemovesAll == [][C1_CascadeStep]_vars

\* The delete of checklist 1 (one task, one subtask) has answered 200, its
\* three rows are gone and the rows of checklist 4 are all there.
C1_Witness ==
  \E r \in Reqs :
    /\ req[r].op = "checklistDelete" /\ req[r].pc = "done"
    /\ req[r].status = 200 /\ req[r].a = 1
    /\ AllChecklistRows(db) \cap {1, 2, 3} = {}
    /\ RowsOfChecklist(db, 4) = {4, 5}

\* ------------------------------------------------------------------ cascades, failures and readers
\* The two checklist cascades, statements of theirs failing, and a reader.
NextCascade ==
  \E r \in Reqs :
    \/ ChecklistDelete(r)
    \/ ChecklistTaskDelete(r)
    \/ Fault(r)
    \/ TxnCommit(r)
    \/ TxnRollback(r)
    \/ ChecklistGet(r)
    \/ Finish(r)

SpecCascade == Init /\ [][NextCascade]_vars

\* The tokens of the rows the cascade in slot r is to remove, as they stood at
\* its BEGIN.
CascadeRows(r) ==
  IF req[r].op = "checklistDelete"
    THEN RowsOfChecklist(txn.snap, req[r].a)
    ELSE {t.id : t \in {x \in txn.snap.checklist_tasks : x.id = req[r].b}}
           \cup {s.id : s \in {x \in txn.snap.subtasks : x.task_id = req[r].b}}

\* Some, but not all, of the rows of the open cascade are gone from the state
\* the connection serves.
PartiallyApplied ==
  /\ txn.open
  /\ CascadeRows(txn.owner) \cap AllChecklistRows(db) # {}
  /\ CascadeRows(txn.owner) \ AllChecklistRows(db) # {}

\* A GET /api/checklists/:id whose next SELECT runs on the current state.
ReaderPending(r) ==
  req[r].op = "checklistGet" /\ req[r].pc \in {"tasks", "subtasks"}

\* C2 (as claimed): cascade deletes are all-or-nothing towards readers: no
\* SELECT of another request ever runs on a state in which only part of an
\* open cascade has been applied.
C2_NoPartialCascadeVisible ==
  \A r \in Reqs : ReaderPending(r) => ~PartiallyApplied

\* ================================================================== projects
\* ------------------------------------------------------------------ DELETE /api/projects/:id
ProjectDelete(r) ==
  \/ /\ Idle(r)
     /\ \E id \in Ids(db, "projects") :
          TxnBegin(r, "projectDelete", id, 0, "delResources")
     /\ UNCHANGED <<db, gen, faults>>
  \/ /\ At(r, "projectDelete", "delResources")
     /\ db' = DeleteOfProject(db, "resource_allocations", req[r].a)
     /\ Goto(r, "delMilestones")
     /\ UNCHANGED <<txn, gen, faults>>
  \/ /\ At(r, "projectDelete", "delMilestones")
     /\ db' = DeleteOfProject(db, "project_milestones", req[r].a)
     /\ Goto(r, "delLinks")
     /\ UNCHANGED <<txn, gen, faults>>
  \/ /\ At(r, "projectDelete", "delLinks")
     /\ db' = DeleteOfProject(db, "project_tasks", req[r].a)
     /\ Goto(r, "delProject")
     /\ UNCHANGED <<txn, gen, faults>>
     \* result.changes === 0 throws 'Project not found'.
  \/ /\ At(r, "projectDelete", "delProject")
     /\ db' = DeleteRow(db, "projects", req[r].a)
     /\ IF ById(db, "projects", req[r].a)
          THEN Goto(r, "commit")
          ELSE req' = [req EXCEPT ![r].pc = "rollback", ![r].tmp = 404]
     /\ UNCHANGED <<txn, gen, faults>>

\* ------------------------------------------------------------------ POST /api/projects/:id/tasks
LinkAdd(r) ==
  \/ /\ Idle(r)
     /\ \E pid \in Ids(db, "projects"), tid \in Ids(db, "tasks") :
          IF ById(db, "projects", pid)
            THEN Enter(r, "linkAdd", pid, tid, NoBody, "task")
            ELSE EnterDone(r, "linkAdd", pid, tid, NoBody, 404)
     /\ UNCHANGED <<db, txn, gen, faults>>
  \/ /\ At(r, "linkAdd", "task")
     /\ IF ById(db, "tasks", req[r].b) THEN Goto(r, "link") ELSE Respond(r, 404)
     /\ UNCHANGED <<db, txn, gen, faults>>
     \* The duplicate check: 409 when the pair is already linked.
  \/ /\ At(r, "linkAdd", "link")
     /\ IF LinkExists(db, req[r].a, req[r].b) THEN Respond(r, 409) ELSE Goto(r, "insert")
     /\ UNCHANGED <<db, txn, gen, faults>>
     \* The INSERT; a rejection by a foreign key or by UNIQUE lands in the
     \* catch block, which answers 500.
  \/ /\ At(r, "linkAdd", "insert")
     /\ IF LinkInsertAccepted(db, req[r].a, req[r].b)
          THEN /\ HasRoom(db, "project_tasks", MaxInserts)
               /\ db' = InsertRow(db, "project_tasks",
                                  [project_id |-> req[r].a, task_id |-> req[r].b])
               /\ Respond(r, 201)
          ELSE /\ db' = db
               /\ Respond(r, 500)
     /\ UNCHANGED <<txn, gen, faults>>

\* ------------------------------------------------------------------ DELETE /api/projects/:id/tasks/:taskId
LinkRemove(r) ==
  /\ Idle(r)
  /\ \E pid \in Ids(db, "projects"), tid \in Ids(db, "tasks") :
       /\ db' = DeleteLink(db, pid, tid)
       /\ EnterDone(r, "linkRemove", pid, tid, NoBody,
                    IF LinkExists(db, pid, tid) THEN 200 ELSE 404)
  /\ UNCHANGED <<txn, gen, faults>>

\* ------------------------------------------------------------------ POST /api/projects/:id/milestones
\* The handler checks the project, then the title once trimmed.
MilestoneAdd(r) ==
  \/ /\ Idle(r)
     /\ \E pid \in Ids(db, "projects"), raw \in RawBodies.milestones :
          IF ~ById(db, "projects", pid)
            THEN EnterDone(r, "milestoneAdd", pid, 0, raw, 404)
            ELSE IF Len(Trim(raw.title)) < 3
              THEN EnterDone(r, "milestoneAdd", pid, 0, raw, 400)
              ELSE Enter(r, "milestoneAdd", pid, 0, raw, "insert")
     /\ UNCHANGED <<db, txn, gen, faults>>
     \* The insert is refused by the foreign key when the project is gone, and
     \* by the CHECK on the title; the catch answers 500 to both.
  \/ /\ At(r, "milestoneAdd", "insert")
     /\ LET row == MilestoneRow(0, req[r].a, Trim(req[r].body.title))
        IN IF ById(db, "projects", req[r].a) /\ CheckConstraints("project_milestones", row)
             THEN /\ HasRoom(db, "project_milestones", MaxInserts)
                  /\ db' = InsertRow(db, "project_milestones", row)
                  /\ req' = [req EXCEPT ![r].pc = "get", ![r].body = NoBody]
             ELSE /\ db' = db
                  /\ Respond(r, 500)
     /\ UNCHANGED <<txn, gen, faults>>
     \* The row read back is sent as it is, found or not.
  \/ /\ At(r, "milestoneAdd", "get")
     /\ Respond(r, 201)
     /\ UNCHANGED <<db, txn, gen, faults>>

\* ------------------------------------------------------------------ POST /api/projects/:id/resources
\* The handler checks the project, then the resource_name once trimmed, then
\* the role.
ResourceAdd(r) ==
  \/ /\ Idle(r)
     /\ \E pid \in Ids(db, "projects"), raw \in RawBodies.resources :
          IF ~ById(db, "projects", pid)
            THEN EnterDone(r, "resourceAdd", pid, 0, raw, 404)
            ELSE IF Len(Trim(raw.resource_name)) < 2 \/ raw.role = ""
              THEN EnterDone(r, "resourceAdd", pid, 0, raw, 400)
              ELSE Enter(r, "resourceAdd", pid, 0, raw, "insert")
     /\ UNCHANGED <<db, txn, gen, faults>>
  \/ /\ At(r, "resourceAdd", "insert")
     /\ LET row == ResourceRow(0, req[r].a, Trim(req[r].body.resource_name),
                               req[r].body.role)
        IN IF ById(db, "projects", req[r].a)
                /\ CheckConstraints("resource_allocations", row)
             THEN /\ HasRoom(db, "resource_allocations", MaxInserts)
                  /\ db' = InsertRow(db, "resource_allocations", row)
                  /\ req' = [req EXCEPT ![r].pc = "get", ![r].body = NoBody]
             ELSE /\ db' = db
                  /\ Respond(r, 500)
     /\ UNCHANGED <<txn, gen, faults>>
     \* The row read back is sent as it is, found or not.
  \/ /\ At(r, "resourceAdd", "get")
     /\ Respond(r, 201)
     /\ UNCHANGED <<db, txn, gen, faults>>

\* Projects being deleted while links and milestones are added to them.
NextProject ==
  \E r \in Reqs :
    \/ ProjectDelete(r)
    \/ TxnCommit(r)
    \/ TxnRollback(r)
    \/ LinkAdd(r)
    \/ MilestoneAdd(r)
    \/ Finish(r)

\* Tasks being linked to and unlinked from projects.
NextLink ==
  \E r \in Reqs :
    \/ LinkAdd(r)
    \/ LinkRemove(r)
    \/ Finish(r)

SpecProject == Init /\ [][NextProject]_vars

SpecLink == Init /\ [][NextLink]_vars

\* The rows of the child tables that carry project_id pid, tagged by table.
RowsOfProject(d, pid) ==
  {<<"project_tasks", l.id>> : l \in {x \in d.project_tasks : x.project_id = pid}}
    \cup {<<"project_milestones", m.id>> : m \in {x \in d.project_milestones : x.project_id = pid}}
    \cup {<<"resource_allocations", a.id>> : a \in {x \in d.resource_allocations : x.project_id = pid}}

\* The tasks rows linked to project pid.
TasksOfProject(d, pid) ==
  {t \in d.tasks : \E l \in d.project_tasks : l.project_id = pid /\ l.task_id = t.id}

\* C3: when DELETE /api/projects/:id answers 200, the project row and every
\* project_milestones, resource_allocations and project_tasks row with that
\* project_id are gone, every tasks row that was linked to the project when the
\* cascade began is still there with the same columns, and no statement of the
\* cascade touches the tasks table.
C3_CascadeStep ==
  \A r \in Reqs :
    /\ Step(r, "projectDelete", "commit") =>
         /\ req'[r].status = 200
         /\ ~\E x \in db'.projects : x.id = req[r].a
         /\ RowsOfProject(db', req[r].a) = {}
         /\ TasksOfProject(txn.snap, req[r].a) \subseteq db'.tasks
    /\ (req[r].op = "projectDelete" /\ req[r].pc # "rollback" /\ req'[r] # req[r]) =>
         db'.tasks = db.tasks

C3_ProjectDeleteKeepsTasks == [][C3_CascadeStep]_vars

\* The delete of project 1 (a milestone, a resource, two linked tasks) has
\* answered 200: nothing of project 1 is left and both tasks are as stored.
C3_Witness ==
  \E r \in Reqs :
    /\ req[r].op = "projectDelete" /\ req[r].pc = "done"
    /\ req[r].status = 200 /\ req[r].a = 1
    /\ ~ById(db, "projects", 1) /\ RowsOfProject(db, 1) = {}
    /\ db.tasks = StoredDb.tasks

\* The project_tasks rows of the pair (pid, tid).
LinksOfPair(d, pid, tid) ==
  {l \in d.project_tasks : l.project_id = pid /\ l.task_id = tid}

\* UNIQUE(project_id, task_id): no pair has two rows.
UniqueLinks ==
  \A l1 \in db.project_tasks, l2 \in db.project_tasks :
    (l1.project_id = l2.project_id /\ l1.task_id = l2.task_id) => l1 = l2

\* C8: a POST /api/projects/:id/tasks whose duplicate check runs when the pair
\* is already linked (the second attempt) is answered 409 and adds no row; a
\* first attempt that is answered 201 leaves exactly one row for the pair; and
\* the join table never holds two rows for one pair.
C8_LinkStep ==
  \A r \in Reqs :
    /\ (Step(r, "linkAdd", "link") /\ LinksOfPair(db, req[r].a, req[r].b) # {}) =>
         (req'[r].status = 409 /\ db' = db)
    /\ (Step(r, "linkAdd", "insert") /\ req'[r].status = 201) =>
         Cardinality(LinksOfPair(db', req[r].a, req[r].b)) = 1
    /\ (Step(r, "linkAdd", "insert") /\ req'[r].status # 201) => db' = db

C8_DuplicateLinkRejected == []UniqueLinks /\ [][C8_LinkStep]_vars

\* Project 2 and task 2 were linked by one request (row 4, answered 201) and a
\* second request for the same pair has been answered 409.
C8_Witness ==
  \E r1 \in Reqs, r2 \in Reqs :
    /\ req[r1].op = "linkAdd" /\ req[r1].pc = "done" /\ req[r1].status = 201
    /\ req[r1].a = 2 /\ req[r1].b = 2
    /\ req[r2].op = "linkAdd" /\ req[r2].pc = "done" /\ req[r2].status = 409
    /\ req[r2].a = 2 /\ req[r2].b = 2
    /\ Cardinality(LinksOfPair(db, 2, 2)) = 1

\* C9: DELETE /api/projects/:id/tasks/:taskId on an existing link answers 200,
\* removes the one project_tasks row of that pair and changes nothing else:
\* tasks, projects and every other link stay as they were.
C9_UnlinkStep ==
  \A r \in Reqs :
    (Idle(r) /\ req'[r].op = "linkRemove" /\ req'[r].status = 200) =>
      /\ Cardinality(LinksOfPair(db, req'[r].a, req'[r].b)) = 1
      /\ db' = [db EXCEPT !.project_tasks = @ \ LinksOfPair(db, req'[r].a, req'[r].b)]

C9_UnlinkRemovesOneRow == [][C9_UnlinkStep]_vars

\* Task 1 has been unlinked from project 1 (answered 200): task 1, project 1,
\* task 1's link to project 2 and project 1's link to task 2 are all there.
C9_Witness ==
  \E r \in Reqs :
    /\ req[r].op = "linkRemove" /\ req[r].pc = "done" /\ req[r].status = 200
    /\ req[r].a = 1 /\ req[r].b = 1
    /\ LinksOfPair(db, 1, 1) = {}
    /\ LinksOfPair(db, 2, 1) # {} /\ LinksOfPair(db, 1, 2) # {}
    /\ ById(db, "tasks", 1) /\ ById(db, "projects", 1)

\* ================================================================== daily tasks
\* hours_spent of a request body; <<>> is a body without the field.
HoursSpent == {<<>>, <<2>>, <<3>>}

\* v || 0 for a number or a missing value v.
OrZero(v) == IF v = <<>> THEN 0 ELSE v[1]

\* The daily_task_progress rows of daily task id.
ProgressOf(d, id) == {p \in d.daily_task_progress : p.daily_task_id = id}

RECURSIVE SumHours(_)
\* SUM(hours_spent) over a non-empty set of rows; 0 over none.
SumHours(rows) ==
  IF rows = {} THEN 0
  ELSE LET p == CHOOSE x \in rows : TRUE
       IN p.hours_spent + SumHours(rows \ {p})

\* SELECT SUM(hours_spent) as total FROM daily_task_progress WHERE
\* daily_task_id = ?: NULL over no rows.
TotalHours(d, id) ==
  IF ProgressOf(d, id) = {} THEN <<>> ELSE <<SumHours(ProgressOf(d, id))>>

\* ------------------------------------------------------------------ POST /api/daily-tasks/:id/progress
ProgressAdd(r) ==
  \/ /\ Idle(r)
     /\ \E id \in Ids(db, "daily_tasks"), hours \in HoursSpent, dated \in BOOLEAN :
          IF ~ById(db, "daily_tasks", id)
            THEN EnterDone(r, "progressAdd", id, 0, NoBody, 404)
            ELSE IF ~dated
              THEN EnterDone(r, "progressAdd", id, 0, NoBody, 400)
              ELSE Enter(r, "progressAdd", id, OrZero(hours), NoBody, "insert")
     /\ UNCHANGED <<db, txn, gen, faults>>
     \* The insert is refused by the foreign key when the daily task is gone.
  \/ /\ At(r, "progressAdd", "insert")
     /\ IF ById(db, "daily_tasks", req[r].a)
          THEN /\ HasRoom(db, "daily_task_progress", MaxRacing)
               /\ db' = InsertRow(db, "daily_task_progress",
                                  [daily_task_id |-> req[r].a, hours_spent |-> req[r].b])
               /\ req' = [req EXCEPT ![r].pc = "sum",
                                     ![r].c = db.seq["daily_task_progress"] + 1]
          ELSE /\ db' = db
               /\ Respond(r, 500)
     /\ UNCHANGED <<txn, gen, faults>>
  \/ /\ At(r, "progressAdd", "sum")
     /\ req' = [req EXCEPT ![r].pc = "update",
                           ![r].tmp = OrZero(TotalHours(db, req[r].a))]
     /\ UNCHANGED <<db, txn, gen, faults>>
  \/ /\ At(r, "progressAdd", "update")
     /\ db' = UpdateRow(db, "daily_tasks", req[r].a, [actual_hours |-> req[r].tmp])
     /\ Goto(r, "get")
     /\ UNCHANGED <<txn, gen, faults>>
  \/ /\ At(r, "progressAdd", "get")
     /\ Respond(r, 201)
     /\ UNCHANGED <<db, txn, gen, faults>>

NextDaily ==
  \E r \in Reqs :
    \/ ProgressAdd(r)
    \/ Finish(r)

SpecDaily == Init /\ [][NextDaily]_vars

\* A POST /api/daily-tasks/:id/progress for daily task id has been received
\* and not yet answered.
ProgressAddInFlight(id) ==
  \E r \in Reqs :
    /\ req[r].op = "progressAdd"
    /\ req[r].pc \notin {"idle", "done"}
    /\ req[r].a = id

\* C4 (as claimed): whenever no progress append for a daily task is in
\* flight, its actual_hours is the sum of hours_spent over its
\* daily_task_progress rows.
C4_ActualHoursIsSum ==
  \A t \in db.daily_tasks :
    ~ProgressAddInFlight(t.id) => t.actual_hours = SumHours(ProgressOf(db, t.id))

\* ================================================================== articles
\* The bodies clients send: a headline that passes or is too short, and a
\* link that is stored, stored but padded with blanks, or new; and a headline
\* without a link.
RawArticles ==
  [headline : {"Breaking news", " Hi "},
   link : {"http://a", " http://a ", "http://b"}]
    \cup {[headline |-> "Late news"]}

\* validate(articleSchema): the strings are trimmed, then checked; the
\* converted value replaces req.body.
ValidateArticle(raw) ==
  LET value == [k \in DOMAIN raw \cap {"headline", "link"} |-> Trim(raw[k])]
  IN [ok |-> /\ DOMAIN value = {"headline", "link"}
             /\ Len(value.headline) >= 5 /\ Len(value.headline) <= 500,
      value |-> value]

\* Mutant: the duplicate check never finds a row.
ArticleByLink_Never(d, link) == FALSE

\* SELECT id FROM articles WHERE link = ?
ArticleByLink(d, link) == \E x \in d.articles : x.link = link

\* SELECT id FROM articles WHERE link = ? AND id != ?
ArticleByLinkExcept(d, link, id) ==
  \E x \in d.articles : x.link = link /\ x.id # id

\* ------------------------------------------------------------------ POST /api/articles
ArticleCreate(r) ==
  \/ /\ Idle(r)
     /\ \E raw \in RawArticles :
          LET v == ValidateArticle(raw)
          IN IF ~v.ok
               THEN EnterDone(r, "articleCreate", 0, 0, raw, 400)
               ELSE IF ArticleByLink(db, v.value.link)
                 THEN EnterDone(r, "articleCreate", 0, 0, v.value, 409)
                 ELSE Enter(r, "articleCreate", 0, 0, v.value, "insert")
     /\ UNCHANGED <<db, txn, gen, faults>>
  \/ /\ At(r, "articleCreate", "insert")
     /\ HasRoom(db, "articles", MaxRacing)
     /\ db' = InsertRow(db, "articles",
                        [headline |-> Trim(req[r].body.headline),
                         link |-> Trim(req[r].body.link)])
     /\ req' = [req EXCEPT ![r].pc = "get", ![r].c = db.seq["articles"] + 1]
     /\ UNCHANGED <<txn, gen, faults>>
     \* The row read back is sent as it is, found or not.
  \/ /\ At(r, "articleCreate", "get")
     /\ Respond(r, 201)
     /\ UNCHANGED <<db, txn, gen, faults>>

\* ------------------------------------------------------------------ PUT /api/articles/:id
ArticleUpdate(r) ==
  \/ /\ Idle(r)
     /\ \E id \in Ids(db, "articles"), raw \in RawArticles :
          LET v == ValidateArticle(raw)
          IN IF ~v.ok
               THEN EnterDone(r, "articleUpdate", id, 0, raw, 400)
               ELSE IF ~ById(db, "articles", id)
                 THEN EnterDone(r, "articleUpdate", id, 0, NoBody, 404)
                 ELSE Enter(r, "articleUpdate", id, 0, v.value, "duplicate")
     /\ UNCHANGED <<db, txn, gen, faults>>
  \/ /\ At(r, "articleUpdate", "duplicate")
     /\ IF ArticleByLinkExcept(db, req[r].body.link, req[r].a)
          THEN Respond(r, 409)
          ELSE Goto(r, "update")
     /\ UNCHANGED <<db, txn, gen, faults>>
  \/ /\ At(r, "articleUpdate", "update")
     /\ db' = UpdateRow(db, "articles", req[r].a,
                        [headline |-> Trim(req[r].body.headline),
                         link |-> Trim(req[r].body.link)])
     /\ Goto(r, "get")
     /\ UNCHANGED <<txn, gen, faults>>
  \/ /\ At(r, "articleUpdate", "get")
     /\ Respond(r, 200)
     /\ UNCHANGED <<db, txn, gen, faults>>

\* ------------------------------------------------------------------ DELETE /api/articles/:id
ArticleDelete(r) ==
  /\ Idle(r)
  /\ \E id \in Ids(db, "articles") :
       /\ db' = DeleteRow(db, "articles", id)
       /\ EnterDone(r, "articleDelete", id, 0, NoBody,
                    IF ById(db, "articles", id) THEN 200 ELSE 404)
  /\ UNCHANGED <<txn, gen, faults>>

NextArticle ==
  \E r \in Reqs :
    \/ ArticleCreate(r)
    \/ ArticleUpdate(r)
    \/ ArticleDelete(r)
    \/ Finish(r)

SpecArticle == Init /\ [][NextArticle]_vars

\* C5: a POST /api/articles whose link an article already holds is answered
\* 409 at its first statement, and that statement leaves every table, the
\* existing article's headline and link included, as it was.
C5_DuplicateStep ==
  \A r \in Reqs :
    (/\ Idle(r)
     /\ req'[r].op = "articleCreate"
     /\ req'[r].status # 400
     /\ \E x \in db.articles : x.link = req'[r].body.link)
    => /\ req'[r].pc = "done"
       /\ req'[r].status = 409
       /\ db' = db

C5_DuplicateArticleRejected == [][C5_DuplicateStep]_vars

\* A create for the stored link has been answered 409 and the stored article
\* is the only one, as it was.
C5_Witness ==
  /\ \E r \in Reqs :
       /\ req[r].op = "articleCreate"
       /\ req[r].pc = "done"
       /\ req[r].status = 409
       /\ req[r].body.link = "http://a"
  /\ db.articles = StoredDb.articles

\* C6 (as claimed): no two articles rows hold the same link, in any reachable
\* state.
C6_ArticleLinksUnique ==
  \A x, y \in db.articles : x.link = y.link => x.id = y.id

\* ================================================================== progress reports
\* The bodies validateProgressReport lets through, by the two fields the
\* handlers compare.
ReportBodies ==
  [reporter_name : {"Ann", "Bob"}, report_date : {"2024-01-01"}]

\* SELECT id FROM daily_progress_reports WHERE reporter_name = ? AND
\* report_date = ?
ReportExists(d, name, date) ==
  \E x \in d.daily_progress_reports : x.reporter_name = name /\ x.report_date = date

\* ------------------------------------------------------------------ POST /api/progress-reports
ReportCreate(r) ==
  \/ /\ Idle(r)
     /\ \E body \in ReportBodies :
          IF ReportExists(db, body.reporter_name, body.report_date)
            THEN EnterDone(r, "reportCreate", 0, 0, body, 409)
            ELSE Enter(r, "reportCreate", 0, 0, body, "insert")
     /\ UNCHANGED <<db, txn, gen, faults>>
  \/ /\ At(r, "reportCreate", "insert")
     /\ HasRoom(db, "daily_progress_reports", MaxRacing)
     /\ db' = InsertRow(db, "daily_progress_reports",
                        [reporter_name |-> Trim(req[r].body.reporter_name),
                         report_date |-> req[r].body.report_date])
     /\ req' = [req EXCEPT ![r].pc = "get",
                           ![r].c = db.seq["daily_progress_reports"] + 1]
     /\ UNCHANGED <<txn, gen, faults>>
     \* The row read back is sent as it is, found or not.
  \/ /\ At(r, "reportCreate", "get")
     /\ Respond(r, 201)
     /\ UNCHANGED <<db, txn, gen, faults>>

\* ------------------------------------------------------------------ DELETE /api/progress-reports/:id
ReportDelete(r) ==
  /\ Idle(r)
  /\ \E id \in Ids(db, "daily_progress_reports") :
       /\ db' = DeleteRow(db, "daily_progress_reports", id)
       /\ EnterDone(r, "reportDelete", id, 0, NoBody,
                    IF ById(db, "daily_progress_reports", id) THEN 200 ELSE 404)
  /\ UNCHANGED <<txn, gen, faults>>

NextReport ==
  \E r \in Reqs :
    \/ ReportCreate(r)
    \/ ReportDelete(r)
    \/ Finish(r)

SpecReport == Init /\ [][NextReport]_vars

\* C7 (as claimed): no two daily_progress_reports rows share reporter_name and
\* report_date, in any reachable state.
C7_ReportsUnique ==
  \A x, y \in db.daily_progress_reports :
    (x.reporter_name = y.reporter_name /\ x.report_date = y.report_date)
      => x.id = y.id

\* ================================================================== tasks
\* The keys of taskUpdateSchema.
TaskUpdateKeys == {"status", "approver", "timer", "completed"}

\* The bodies clients send to PUT /api/tasks/:id: one field, two fields, a
\* field with a key the schema does not know, only such a key, and a status
\* the schema does not allow.
RawTaskUpdates ==
  { [status |-> "pending"],
    [status |-> "approved", approver |-> "Bob"],
    [timer |-> "10:00"],
    [completed |-> TRUE],
    [status |-> "rejected", name |-> "Hacked"],
    [name |-> "Hacked"],
    [status |-> "done"] }

\* Mutant: unknown keys are kept.
StripUnknown_Keep(raw) == raw

\* stripUnknown: true drops the keys the schema does not know.
StripUnknown(raw) == [k \in DOMAIN raw \cap TaskUpdateKeys |-> raw[k]]

\* Mutant: the schema takes any string for status.
ValidateTaskUpdate_AnyStatus(raw) ==
  [ok |-> DOMAIN StripUnknown(raw) # {}, value |-> StripUnknown(raw)]

\* validate(taskUpdateSchema): the value without its unknown keys replaces
\* req.body when every key passes its rule and at least one key is left.
ValidateTaskUpdate(raw) ==
  LET value == StripUnknown(raw)
  IN [ok |-> /\ DOMAIN value # {}
             /\ "status" \in DOMAIN value =>
                  value.status \in {"pending", "approved", "rejected"}
             /\ "approver" \in DOMAIN value =>
                  (Len(value.approver) >= 2 /\ Len(value.approver) <= 100),
      value |-> value]

\* ------------------------------------------------------------------ PUT /api/tasks/:id
TaskUpdate(r) ==
  \/ /\ Idle(r)
     /\ \E id \in Ids(db, "tasks"), raw \in RawTaskUpdates :
          LET v == ValidateTaskUpdate(raw)
          IN IF ~v.ok
               THEN EnterDone(r, "taskUpdate", id, 0, raw, 400)
               ELSE IF ~ById(db, "tasks", id)
                 THEN EnterDone(r, "taskUpdate", id, 0, NoBody, 404)
                 ELSE Enter(r, "taskUpdate", id, 0, v.value, "update")
     /\ UNCHANGED <<db, txn, gen, faults>>
  \/ /\ At(r, "taskUpdate", "update")
     /\ db' = UpdateRow(db, "tasks", req[r].a, req[r].body)
     /\ req' = [req EXCEPT ![r].pc = "get", ![r].body = NoBody]
     /\ UNCHANGED <<txn, gen, faults>>
     \* The row read back is sent as it is, found or not.
  \/ /\ At(r, "taskUpdate", "get")
     /\ Respond(r, 200)
     /\ UNCHANGED <<db, txn, gen, faults>>

\* ------------------------------------------------------------------ DELETE /api/tasks/:id
TaskDelete(r) ==
  /\ Idle(r)
  /\ \E id \in Ids(db, "tasks") :
       /\ db' = DeleteRow(db, "tasks", id)
       /\ EnterDone(r, "taskDelete", id, 0, NoBody,
                    IF ById(db, "tasks", id) THEN 200 ELSE 404)
  /\ UNCHANGED <<txn, gen, faults>>

NextTask ==
  \E r \in Reqs :
    \/ TaskUpdate(r)
    \/ TaskDelete(r)
    \/ Finish(r)

SpecTask == Init /\ [][NextTask]_vars

\* C10: the UPDATE of PUT /api/tasks/:id runs with a non-empty set S of keys
\* out of {status, approver, timer, completed} and sets exactly those columns
\* on the task the URL names: the columns of S take the values of the body
\* (completed as 1 or 0), id, name, creator and the allow-listed columns not
\* in S keep their values, no row is added or removed, every other tasks row
\* and every other table stay as they were.
C10_UpdateStep ==
  \A r \in Reqs :
    Step(r, "taskUpdate", "update") =>
      LET id == req[r].a
          body == req[r].body
          S == DOMAIN body
      IN /\ S # {} /\ S \subseteq {"status", "approver", "timer", "completed"}
         /\ {t \in db'.tasks : t.id # id} = {t \in db.tasks : t.id # id}
         /\ Cardinality(db'.tasks) = Cardinality(db.tasks)
         /\ \A t \in db.tasks : t.id = id =>
              \E u \in db'.tasks :
                /\ u.id = id /\ u.name = t.name /\ u.creator = t.creator
                /\ u.status = (IF "status" \in S THEN body.status ELSE t.status)
                /\ u.approver = (IF "approver" \in S THEN body.approver ELSE t.approver)
                /\ u.timer = (IF "timer" \in S THEN body.timer ELSE t.timer)
                /\ u.completed = (IF "completed" \in S
                                    THEN (IF body.completed THEN 1 ELSE 0)
                                    ELSE t.completed)
         /\ [db' EXCEPT !.tasks = {}] = [db EXCEPT !.tasks = {}]

C10_TaskUpdateSetsExactlyS == [][C10_UpdateStep]_vars

\* Task 1 was first given a timer and then approved by Bob in a body without
\* timer: it holds the new status and approver, the timer and completed flag
\* it had, its name and creator, and task 2 is as stored.
C10_Witness ==
  /\ \E r \in Reqs :
       /\ req[r].op = "taskUpdate" /\ req[r].pc = "done"
       /\ req[r].status = 200 /\ req[r].a = 1
  /\ \E t \in db.tasks :
       /\ t.id = 1 /\ t.name = "Write report" /\ t.creator = "Ann"
       /\ t.status = "approved" /\ t.approver = "Bob"
       /\ t.timer = "10:00" /\ t.completed = 0
  /\ TaskRow(2, "Review", "Bob") \in db.tasks

\* ================================================================== updates of child rows
\* PUT on a checklist task, a subtask, a milestone and a resource allocation:
\* the four handlers take req.body as the client sent it (no validate
\* middleware is mounted on these routes) and build the SET clause from the
\* keys of their allowedFields.

\* const allowedFields = [...] of the PUT handler of table t.
AllowedOf(t) ==
  CASE t = "checklist_tasks" -> {"title", "priority", "completed"}
    [] t = "subtasks" -> {"title", "completed"}
    [] t = "project_milestones" -> {"title", "description", "due_date", "completed"}
    [] t = "resource_allocations" ->
         {"resource_name", "role", "hours_per_week", "start_date", "end_date",
          "hourly_rate"}

\* The bodies clients send to the PUT of table t: an empty object, only a
\* key the handler does not allow, one allowed key, an allowed and a foreign
\* key together, and a value the table's CHECK refuses.
RawUpdates(t) ==
  CASE t = "checklist_tasks" ->
         { NoBody, [checklist_id |-> 4], [title |-> "Mop"],
           [completed |-> TRUE, id |-> 9], [priority |-> "Urgent"] }
    [] t = "subtasks" ->
         { NoBody, [task_id |-> 5], [completed |-> TRUE], [title |-> "x"] }
    [] t = "project_milestones" ->
         { NoBody, [project_id |-> 2], [completed |-> TRUE], [title |-> "Go"] }
    [] t = "resource_allocations" ->
         { NoBody, [project_id |-> 2], [role |-> "qa"], [resource_name |-> "B"] }

\* The column of table t that names the parent row, and the parent's table.
ParentTable(col) ==
  CASE col = "checklist_id" -> "checklists"
    [] col = "task_id" -> "checklist_tasks"
    [] col = "project_id" -> "projects"

\* Object.keys(updates).filter(field => allowedFields.includes(field)), with
\* the values of those keys.
AllowedFields(updates, allowed) ==
  [k \in DOMAIN updates \cap allowed |-> updates[k]]

\* Mutant: the test for an empty field list is lost.
NoFields_Never(fields) == FALSE

\* if (fields.length === 0)
NoFields(fields) == DOMAIN fields = {}

\* SELECT * FROM <t> WHERE id = ? AND <col> = ?
ChildExists(d, t, id, col, pid) == \E x \in d[t] : x.id = id /\ x[col] = pid

\* UPDATE <t> SET <k> = ?, ... WHERE id = ? AND <col> = ?, one assignment per
\* key of the body that is a column of the model.
UpdateChild(d, t, id, col, pid, body) ==
  [d EXCEPT ![t] =
     {IF x.id = id /\ x[col] = pid
        THEN [k \in DOMAIN x |->
                IF k \in DOMAIN body THEN SqlBind(k, body[k]) ELSE x[k]]
        ELSE x : x \in @}]

\* The engine runs the UPDATE that turns d into d2: the SET clause is not
\* empty (an empty one is a syntax error) and every row of t passes its CHECK
\* constraints.
UpdateAccepted(d2, t, body) ==
  /\ DOMAIN body # {}
  /\ \A x \in d2[t] : CheckConstraints(t, x)

\* ------------------------------------------------------------------ PUT of a child addressed by (parent id, id)
\* The handlers of checklist tasks, milestones and resource allocations are
\* one text with the table, its parent column and its allowedFields changed:
\* SELECT by id and parent (404), filter the keys (400), UPDATE by id and
\* parent (a rejected UPDATE is caught and answered 500), SELECT again, 200.
\* A rejected request keeps the body it came with.
ChildUpdate(r, op, t, col) ==
  \/ /\ Idle(r)
     /\ \E pid \in Ids(db, ParentTable(col)), id \in Ids(db, t), raw \in RawUpdates(t) :
          IF ~ChildExists(db, t, id, col, pid)
            THEN EnterDone(r, op, pid, id, raw, 404)
            ELSE IF NoFields(AllowedFields(raw, AllowedOf(t)))
              THEN EnterDone(r, op, pid, id, raw, 400)
              ELSE Enter(r, op, pid, id, AllowedFields(raw, AllowedOf(t)), "update")
     /\ UNCHANGED <<db, txn, gen, faults>>
  \/ /\ At(r, op, "update")
     /\ LET d2 == UpdateChild(db, t, req[r].b, col, req[r].a, req[r].body)
        IN IF UpdateAccepted(d2, t, req[r].body)
             THEN /\ db' = d2
                  /\ req' = [req EXCEPT ![r].pc = "get", ![r].body = NoBody]
             ELSE /\ db' = db
                  /\ req' = [req EXCEPT ![r].pc = "done", ![r].status = 500]
     /\ UNCHANGED <<txn, gen, faults>>
     \* The row read back is sent as it is, found or not.
  \/ /\ At(r, op, "get")
     /\ Respond(r, 200)
     /\ UNCHANGED <<db, txn, gen, faults>>

\* PUT /api/checklists/:checklistId/tasks/:taskId
ChecklistTaskUpdate(r) == ChildUpdate(r, "checklistTaskUpdate", "checklist_tasks", "checklist_id")

\* PUT /api/projects/:id/milestones/:milestoneId
MilestoneUpdate(r) == ChildUpdate(r, "milestoneUpdate", "project_milestones", "project_id")

\* PUT /api/projects/:id/resources/:resourceId
ResourceUpdate(r) == ChildUpdate(r, "resourceUpdate", "resource_allocations", "project_id")

\* ------------------------------------------------------------------ PUT /api/checklists/:checklistId/tasks/:taskId/subtasks/:subtaskId
\* The task is looked up in the checklist (404), the keys are filtered (400),
\* the UPDATE names the subtask by id and task_id and result.changes === 0 is
\* answered 404.
SubtaskUpdate(r) ==
  \/ /\ Idle(r)
     /\ \E cid \in Ids(db, "checklists"), tid \in Ids(db, "checklist_tasks"),
           sid \in Ids(db, "subtasks"), raw \in RawUpdates("subtasks") :
          req' = [req EXCEPT ![r] =
            [op |-> "subtaskUpdate", a |-> cid, b |-> tid, c |-> sid, tmp |-> 0,
             pc |-> IF ChecklistTaskExists(db, tid, cid)
                       /\ ~NoFields(AllowedFields(raw, AllowedOf("subtasks")))
                      THEN "update" ELSE "done",
             body |-> IF ChecklistTaskExists(db, tid, cid)
                         /\ ~NoFields(AllowedFields(raw, AllowedOf("subtasks")))
                        THEN AllowedFields(raw, AllowedOf("subtasks")) ELSE raw,
             status |-> IF ~ChecklistTaskExists(db, tid, cid) THEN 404
                        ELSE IF NoFields(AllowedFields(raw, AllowedOf("subtasks")))
                          THEN 400 ELSE 0]]
     /\ UNCHANGED <<db, txn, gen, faults>>
  \/ /\ At(r, "subtaskUpdate", "update")
     /\ LET d2 == UpdateChild(db, "subtasks", req[r].c, "task_id", req[r].b, req[r].body)
        IN IF ~UpdateAccepted(d2, "subtasks", req[r].body)
             THEN /\ db' = db
                  /\ req' = [req EXCEPT ![r].pc = "done", ![r].status = 500]
             ELSE /\ db' = d2
                  /\ IF ChildExists(db, "subtasks", req[r].c, "task_id", req[r].b)
                       THEN req' = [req EXCEPT ![r].pc = "get", ![r].body = NoBody]
                       ELSE req' = [req EXCEPT ![r].pc = "done", ![r].status = 404]
     /\ UNCHANGED <<txn, gen, faults>>
  \/ /\ At(r, "subtaskUpdate", "get")
     /\ Respond(r, 200)
     /\ UNCHANGED <<db, txn, gen, faults>>

\* The rows of d that are not as stored and the stored rows that d lacks,
\* each named by its table and id.
RowsChanged(d) ==
  UNION {{<<t, x.id>> : x \in (d[t] \ StoredDb[t]) \cup (StoredDb[t] \ d[t])} :
           t \in DOMAIN d \ {"seq"}}

\* The step leaves at most n rows changed or gone.
Within(n) == Cardinality(RowsChanged(db')) <= n

\* The five PUT routes of the claim, each slot taking one request after
\* another, up to MaxChanged rows away from the stored ones.
NextUpdate ==
  \E r \in Reqs :
    \/ TaskUpdate(r) /\ Within(MaxChanged)
    \/ ChecklistTaskUpdate(r) /\ Within(MaxChanged)
    \/ SubtaskUpdate(r) /\ Within(MaxChanged)
    \/ MilestoneUpdate(r) /\ Within(MaxChanged)
    \/ ResourceUpdate(r) /\ Within(MaxChanged)
    \/ Finish(r) /\ Within(MaxChanged)

SpecUpdate == Init /\ [][NextUpdate]_vars

\* The PUT operations and the keys each one allows.
UpdateOps ==
  [taskUpdate |-> TaskUpdateKeys,
   checklistTaskUpdate |-> AllowedOf("checklist_tasks"),
   subtaskUpdate |-> AllowedOf("subtasks"),
   milestoneUpdate |-> AllowedOf("project_milestones"),
   resourceUpdate |-> AllowedOf("resource_allocations")]

\* C11: a PUT on a task, checklist task, subtask, milestone or resource
\* allocation whose body has no allow-listed key (empty, or only unknown
\* keys) is answered 400 (404 when the addressed row is not there), no step
\* of it changes a row, and no UPDATE of these handlers runs with an empty
\* SET clause or with a key outside the allow-list.
C11_RejectStep ==
  \A r \in Reqs :
    /\ (Idle(r) /\ req'[r].op \in DOMAIN UpdateOps
          /\ DOMAIN req'[r].body \cap UpdateOps[req'[r].op] = {}) =>
         /\ req'[r].pc = "done" /\ req'[r].status \in {400, 404}
         /\ db' = db
    /\ \A op \in DOMAIN UpdateOps :
         Step(r, op, "update") =>
           /\ DOMAIN req[r].body # {}
           /\ DOMAIN req[r].body \subseteq UpdateOps[op]

C11_EmptyUpdateRejected == [][C11_RejectStep]_vars

\* Milestone 1 of project 1 was sent a body with only project_id, which the
\* handler does not allow: the request is answered 400 and the milestone is
\* as stored.
C11_Witness ==
  /\ \E r \in Reqs :
       /\ req[r].op = "milestoneUpdate" /\ req[r].pc = "done"
       /\ req[r].a = 1 /\ req[r].b = 1
       /\ req[r].body = [project_id |-> 2] /\ req[r].status = 400
  /\ MilestoneRow(1, 1, "Alpha") \in db.project_milestones

\* ================================================================== deletes are final
\* The bodies clients send to POST /api/tasks: one that passes, a name that
\* is too short once trimmed, a creator that is too short once trimmed.
RawTasks ==
  { [name |-> "Fix bug", creator |-> "Cy"],
    [name |-> " ab ", creator |-> "Cy"],
    [name |-> "Fix bug", creator |-> " c "] }

\* validate(taskSchema): the strings are trimmed, then checked; the converted
\* value replaces req.body.
ValidateTask(raw) ==
  LET value == [name |-> Trim(raw.name), creator |-> Trim(raw.creator)]
  IN [ok |-> /\ Len(value.name) >= 3 /\ Len(value.name) <= 255
             /\ Len(value.creator) >= 2 /\ Len(value.creator) <= 100,
      value |-> value]

\* ------------------------------------------------------------------ POST /api/tasks
\* A CHECK the engine trips on the INSERT is caught and answered 400.
TaskCreate(r) ==
  \/ /\ Idle(r)
     /\ \E raw \in RawTasks :
          IF ValidateTask(raw).ok
            THEN Enter(r, "taskCreate", 0, 0, ValidateTask(raw).value, "insert")
            ELSE EnterDone(r, "taskCreate", 0, 0, raw, 400)
     /\ UNCHANGED <<db, txn, gen, faults>>
  \/ /\ At(r, "taskCreate", "insert")
     /\ LET row == TaskRow(0, Trim(req[r].body.name), Trim(req[r].body.creator))
        IN IF CheckConstraints("tasks", row)
             THEN /\ HasRoom(db, "tasks", MaxInserts)
                  /\ db' = InsertRow(db, "tasks", row)
                  /\ req' = [req EXCEPT ![r].pc = "get", ![r].a = db.seq.tasks + 1]
             ELSE /\ db' = db
                  /\ Respond(r, 400)
     /\ UNCHANGED <<txn, gen, faults>>
     \* The row read back is sent as it is, found or not.
  \/ /\ At(r, "taskCreate", "get")
     /\ Respond(r, 201)
     /\ UNCHANGED <<db, txn, gen, faults>>

\* ------------------------------------------------------------------ GET /api/tasks/:id
TaskGet(r) ==
  /\ Idle(r)
  /\ \E id \in Ids(db, "tasks") :
       EnterDone(r, "taskGet", id, 0, NoBody, IF ById(db, "tasks", id) THEN 200 ELSE 404)
  /\ UNCHANGED <<db, txn, gen, faults>>

\* Tasks being created, read and deleted while projects are deleted.
NextFinal ==
  \E r \in Reqs :
    \/ TaskCreate(r)
    \/ TaskGet(r)
    \/ TaskDelete(r)
    \/ ProjectDelete(r)
    \/ TxnCommit(r)
    \/ TxnRollback(r)
    \/ Finish(r)

SpecFinal == Init /\ [][NextFinal]_vars

\* C12 (as claimed): once DELETE /api/tasks/:id has answered 200 for an id, a
\* GET /api/tasks/:id that arrives later for that id answers 404.
C12_GetStep ==
  \A r, q \in Reqs :
    ( /\ req[q].op = "taskDelete" /\ req[q].pc = "done" /\ req[q].status = 200
      /\ Idle(r) /\ req'[r].op = "taskGet" /\ req'[r].a = req[q].a )
    => req'[r].status = 404

C12_DeletedStaysDeleted == [][C12_GetStep]_vars

\* ================================================================== children addressed through a parent
\* DELETE FROM <t> WHERE id = ? AND <col> = ?
DeleteChild(d, t, id, col, pid) ==
  [d EXCEPT ![t] = {x \in @ : ~(x.id = id /\ x[col] = pid)}]

\* ------------------------------------------------------------------ DELETE of a child addressed by (parent id, id)
\* The handlers of milestones and resource allocations are one statement:
\* result.changes === 0 is answered 404.
ChildDelete(r, op, t, col) ==
  /\ Idle(r)
  /\ \E pid \in Ids(db, ParentTable(col)), id \in Ids(db, t) :
       /\ db' = DeleteChild(db, t, id, col, pid)
       /\ EnterDone(r, op, pid, id, NoBody,
                    IF ChildExists(db, t, id, col, pid) THEN 200 ELSE 404)
  /\ UNCHANGED <<txn, gen, faults>>

\* DELETE /api/projects/:id/milestones/:milestoneId
MilestoneDelete(r) == ChildDelete(r, "milestoneDelete", "project_milestones", "project_id")

\* DELETE /api/projects/:id/resources/:resourceId
ResourceDelete(r) == ChildDelete(r, "resourceDelete", "resource_allocations", "project_id")

\* ------------------------------------------------------------------ DELETE /api/checklists/:checklistId/tasks/:taskId/subtasks/:subtaskId
SubtaskDelete(r) ==
  \/ /\ Idle(r)
     /\ \E cid \in Ids(db, "checklists"), tid \in Ids(db, "checklist_tasks"),
           sid \in Ids(db, "subtasks") :
          req' = [req EXCEPT ![r] =
            [op |-> "subtaskDelete", a |-> cid, b |-> tid, c |-> sid, tmp |-> 0,
             body |-> NoBody,
             pc |-> IF ChecklistTaskExists(db, tid, cid) THEN "delete" ELSE "done",
             status |-> IF ChecklistTaskExists(db, tid, cid) THEN 0 ELSE 404]]
     /\ UNCHANGED <<db, txn, gen, faults>>
  \/ /\ At(r, "subtaskDelete", "delete")
     /\ db' = DeleteChild(db, "subtasks", req[r].c, "task_id", req[r].b)
     /\ Respond(r, IF ChildExists(db, "subtasks", req[r].c, "task_id", req[r].b)
                     THEN 200 ELSE 404)
     /\ UNCHANGED <<txn, gen, faults>>

\* Checklist tasks, subtasks, milestones and resource allocations being
\* updated and deleted through the parent ids their URLs name.
NextChild ==
  \E r \in Reqs :
    \/ ChecklistTaskUpdate(r) /\ Within(MaxChanged)
    \/ ChecklistTaskDelete(r) /\ Within(MaxChanged)
    \/ SubtaskUpdate(r) /\ Within(MaxChanged)
    \/ SubtaskDelete(r) /\ Within(MaxChanged)
    \/ MilestoneUpdate(r) /\ Within(MaxChanged)
    \/ MilestoneDelete(r) /\ Within(MaxChanged)
    \/ ResourceUpdate(r) /\ Within(MaxChanged)
    \/ ResourceDelete(r) /\ Within(MaxChanged)
    \/ TxnCommit(r) /\ Within(MaxChanged)
    \/ TxnRollback(r) /\ Within(MaxChanged)
    \/ Finish(r) /\ Within(MaxChanged)

SpecChild == Init /\ [][NextChild]_vars

\* The request in slot r names a stored child through a stored parent that
\* does not own it: checklist task 2 of checklist 1 through checklist 4,
\* subtask 3 of task 2 through task 5 or through checklist 4, milestone 1 and
\* resource 1 of project 1 through project 2.
Mismatched(r) ==
  \/ /\ req[r].op \in {"checklistTaskUpdate", "taskDelete"}
     /\ req[r].a = 4 /\ req[r].b = 2
  \/ /\ req[r].op \in {"subtaskUpdate", "subtaskDelete"}
     /\ req[r].c = 3 /\ <<req[r].a, req[r].b>> \in {<<4, 5>>, <<4, 2>>, <<1, 5>>}
  \/ /\ req[r].op \in {"milestoneUpdate", "milestoneDelete", "resourceUpdate",
                       "resourceDelete"}
     /\ req[r].a = 2 /\ req[r].b = 1

\* C13 (as claimed): a PUT or DELETE that names a child through a parent
\* that does not own it is answered 404 (a PUT whose body holds no allowed
\* field may be answered 400 before the child is looked at).
C13_MismatchAnswered404 ==
  \A r \in Reqs :
    (Mismatched(r) /\ req[r].pc = "done") =>
      \/ req[r].status = 404
      \/ /\ req[r].status = 400
         /\ req[r].op \in DOMAIN UpdateOps
         /\ NoFields(AllowedFields(req[r].body, UpdateOps[req[r].op]))

\* ================================================================== deleting what is not there
\* Mutant: the WHERE clause is lost and every daily task's progress goes.
DeleteProgressOf_All(d, id) == [d EXCEPT !.daily_task_progress = {}]

\* DELETE FROM daily_task_progress WHERE daily_task_id = ?
DeleteProgressOf(d, id) ==
  [d EXCEPT !.daily_task_progress = {p \in @ : p.daily_task_id # id}]

\* ------------------------------------------------------------------ DELETE /api/daily-tasks/:id
DailyTaskDelete(r) ==
  \/ /\ Idle(r)
     /\ \E id \in Ids(db, "daily_tasks") :
          TxnBegin(r, "dailyTaskDelete", id, 0, "delProgress")
     /\ UNCHANGED <<db, gen, faults>>
  \/ /\ At(r, "dailyTaskDelete", "delProgress")
     /\ db' = DeleteProgressOf(db, req[r].a)
     /\ Goto(r, "delTask")
     /\ UNCHANGED <<txn, gen, faults>>
     \* result.changes === 0 throws 'Daily task not found'.
  \/ /\ At(r, "dailyTaskDelete", "delTask")
     /\ db' = DeleteRow(db, "daily_tasks", req[r].a)
     /\ IF ById(db, "daily_tasks", req[r].a)
          THEN Goto(r, "commit")
          ELSE req' = [req EXCEPT ![r].pc = "rollback", ![r].tmp = 404]
     /\ UNCHANGED <<txn, gen, faults>>

\* The six DELETE /api/<resource>/:id routes, up to MaxGone rows removed.
NextGone ==
  \E r \in Reqs :
    \/ TaskDelete(r) /\ Within(MaxGone)
    \/ ArticleDelete(r) /\ Within(MaxGone)
    \/ ReportDelete(r) /\ Within(MaxGone)
    \/ ChecklistDelete(r) /\ Within(MaxGone)
    \/ ProjectDelete(r) /\ Within(MaxGone)
    \/ DailyTaskDelete(r) /\ Within(MaxGone)
    \/ TxnCommit(r) /\ Within(MaxGone)
    \/ TxnRollback(r) /\ Within(MaxGone)
    \/ Finish(r) /\ Within(MaxGone)

SpecGone == Init /\ [][NextGone]_vars

\* The table each DELETE /api/<resource>/:id removes its row from.
DeleteOps ==
  [taskDelete |-> "tasks", articleDelete |-> "articles",
   reportDelete |-> "daily_progress_reports", checklistDelete |-> "checklists",
   projectDelete |-> "projects", dailyTaskDelete |-> "daily_tasks"]

\* A DELETE of one statement that finds no row answers 404 and changes no
\* row; no statement of a transactional DELETE of id 0, which no row carries,
\* changes a row.
C14_GoneStep ==
  \A r \in Reqs :
    /\ ( /\ Idle(r)
         /\ req'[r].op \in {"taskDelete", "articleDelete", "reportDelete"}
         /\ ~ById(db, DeleteOps[req'[r].op], req'[r].a) )
       => (req'[r].status = 404 /\ db' = db)
    /\ ( /\ req[r].op \in {"checklistDelete", "projectDelete", "dailyTaskDelete"}
         /\ req[r].a = 0 /\ req'[r] # req[r] )
       => db' = db

\* C14 (as claimed): a DELETE that targets an id with no row is answered 404
\* and changes no row, for tasks, articles, progress reports, checklists,
\* projects and daily tasks.
C14_DeleteOfNothingIs404 ==
  /\ [](\A r \in Reqs :
          ( /\ req[r].op \in DOMAIN DeleteOps /\ req[r].pc = "done"
            /\ req[r].a = 0 ) => req[r].status = 404)
  /\ [][C14_GoneStep]_vars

\* ================================================================== CHECK constraints
\* The body of the finished PUT in slot r sets a column to a value the CHECK
\* of its table refuses: a priority outside High, Medium, Low, a subtask title
\* under 2 characters, a milestone title under 3, a resource name under 2.
BodyTripsCheck(r) ==
  LET body == req[r].body
      short(k, n) == k \in DOMAIN body /\ Len(body[k]) < n
  IN CASE req[r].op = "checklistTaskUpdate" ->
            "priority" \in DOMAIN body /\ body.priority \notin {"High", "Medium", "Low"}
       [] req[r].op = "subtaskUpdate" -> short("title", 2)
       [] req[r].op = "milestoneUpdate" -> short("title", 3)
       [] req[r].op = "resourceUpdate" -> short("resource_name", 2)
       [] OTHER -> FALSE

\* C15 (as claimed): an update that the storage engine rejects for a CHECK
\* constraint is answered with a 400-class status, never a 500-class one.
C15_CheckViolationIs400 ==
  \A r \in Reqs :
    (req[r].pc = "done" /\ BodyTripsCheck(r)) =>
      (req[r].status >= 400 /\ req[r].status < 500)

\* ================================================================== server.js: the middleware stack
\* app.use / app.get in the order server.js registers them.  helmet, the rate
\* limiter (below its 100 requests), cors and the body parsers call next()
\* and are the layer "pass"; the six routers are the layer "routers".
Stack == <<"pass", "static", "routers", "health", "spa", "error", "notFound">>

\* The requests clients send: the front page, the health probe, a path under
\* /api that no route matches, and a task.
HttpRequests ==
  [method : {"GET", "POST"},
   path : {"/", "/api/health", "/api/nonexistent", "/api/tasks/1"}]

\* What one layer does with request q: it responds with a status, calls
\* next(), or calls next(err) with err.status.  index tells whether
\* frontend/index.html is on disk, err is the status of the error being
\* handled (0 for none).  Express skips error handlers while there is no
\* error and every other layer while there is one.
Layer(name, q, index, err, d) ==
  LET respond(code) == [kind |-> "respond", status |-> code]
      next == [kind |-> "next", status |-> err]
  IN CASE name = "error" -> IF err # 0 THEN respond(err) ELSE next
       [] err # 0 -> next
       [] name = "static" ->
            IF q.method = "GET" /\ q.path = "/" /\ index THEN respond(200) ELSE next
       [] name = "routers" ->
            IF q.method = "GET" /\ q.path = "/api/tasks/1"
              THEN respond(IF ById(d, "tasks", 1) THEN 200 ELSE 404)
              ELSE next
       [] name = "health" ->
            IF q.method = "GET" /\ q.path = "/api/health" THEN respond(200) ELSE next
       \* app.get('*'): res.sendFile answers 200, or passes an error with
       \* status 404 on when the file is not there.
       [] name = "spa" ->
            IF q.method # "GET" THEN next
            ELSE IF index THEN respond(200)
            ELSE [kind |-> "next", status |-> 404]
       [] name = "notFound" -> respond(404)
       [] OTHER -> next

\* ------------------------------------------------------------------ app.handle
\* A request walks the stack from its first layer; a is the layer it is at,
\* b tells whether index.html is on disk, tmp is the error being handled.
\* The finished request keeps its method and path.
Dispatch(r) ==
  \/ /\ Idle(r)
     /\ \E q \in HttpRequests, index \in {0, 1} : Enter(r, "route", 1, index, q, "layer")
     /\ UNCHANGED <<db, txn, gen, faults>>
  \/ /\ At(r, "route", "layer")
     /\ LET res == Layer(Stack[req[r].a], req[r].body, req[r].b = 1, req[r].tmp, db)
        IN IF res.kind = "respond"
             THEN req' = [req EXCEPT ![r].pc = "done", ![r].status = res.status]
             ELSE req' = [req EXCEPT ![r].a = @ + 1, ![r].tmp = res.status]
     /\ UNCHANGED <<db, txn, gen, faults>>

\* Requests being routed while a task is deleted.
NextRoute ==
  \E r \in Reqs :
    \/ Dispatch(r)
    \/ TaskDelete(r)
    \/ Finish(r)

SpecRoute == Init /\ [][NextRoute]_vars

\* C16 (as claimed): a request whose path matches no API endpoint, such as
\* GET /api/nonexistent, is answered 404 and never 200.
C16_UnmatchedApiIs404 ==
  \A r \in Reqs :
    ( /\ req[r].op = "route" /\ req[r].pc = "done"
      /\ req[r].body.path = "/api/nonexistent" ) => req[r].status = 404

\* ================================================================== project dates
\* The bodies clients send to POST /api/projects: the end a day before the
\* start, both on the same day, and no dates.
RawProjects ==
  { [name |-> "Blog", start_date |-> <<2>>, end_date |-> <<1>>],
    [name |-> "Blog", start_date |-> <<2>>, end_date |-> <<2>>],
    [name |-> "Blog", start_date |-> <<>>, end_date |-> <<>>] }

\* The bodies clients send to PUT /api/projects/:id: a later start alone, a
\* start after the end it comes with, a new name, and no known key.
RawProjectUpdates ==
  { [start_date |-> <<3>>],
    [start_date |-> <<3>>, end_date |-> <<2>>],
    [name |-> "Site 2"],
    [colour |-> "red"] }

\* Of two DATE values neither is NULL and the second is before the first.
EndsBeforeStart(start, end) == start # <<>> /\ end # <<>> /\ end[1] < start[1]

\* validateProject, as the specification describes it: name of 3 characters
\* or more once trimmed, end_date not before start_date.
ValidateProject(raw) ==
  LET value == [raw EXCEPT !.name = Trim(raw.name)]
  IN [ok |-> /\ Len(value.name) >= 3
             /\ ~EndsBeforeStart(value.start_date, value.end_date),
      value |-> value]

\* validateProjectUpdate, as the specification describes it: unknown keys are
\* stripped, at least one known key is left, and the rules of validateProject
\* hold of the keys the body carries.
ValidateProjectUpdate(raw) ==
  LET value == AllowedFields(raw, {"name", "start_date", "end_date"})
  IN [ok |-> /\ DOMAIN value # {}
             /\ "name" \in DOMAIN value => Len(value.name) >= 3
             /\ {"start_date", "end_date"} \subseteq DOMAIN value =>
                  ~EndsBeforeStart(value.start_date, value.end_date),
      value |-> value]

\* ------------------------------------------------------------------ POST /api/projects
\* A CHECK the engine trips on the INSERT is caught and answered 400;
\* project.tasks = [] throws when the row read back is not there.
ProjectCreate(r) ==
  \/ /\ Idle(r)
     /\ \E raw \in RawProjects :
          IF ValidateProject(raw).ok
            THEN Enter(r, "projectCreate", 0, 0, ValidateProject(raw).value, "insert")
            ELSE EnterDone(r, "projectCreate", 0, 0, raw, 400)
     /\ UNCHANGED <<db, txn, gen, faults>>
  \/ /\ At(r, "projectCreate", "insert")
     /\ LET row == ProjectRow(0, Trim(req[r].body.name), req[r].body.start_date,
                              req[r].body.end_date)
        IN IF CheckConstraints("projects", row)
             THEN /\ HasRoom(db, "projects", MaxInserts)
                  /\ db' = InsertRow(db, "projects", row)
                  /\ req' = [req EXCEPT ![r].pc = "get", ![r].a = db.seq.projects + 1]
             ELSE /\ db' = db
                  /\ Respond(r, 400)
     /\ UNCHANGED <<txn, gen, faults>>
  \/ /\ At(r, "projectCreate", "get")
     /\ Respond(r, IF ById(db, "projects", req[r].a) THEN 201 ELSE 500)
     /\ UNCHANGED <<db, txn, gen, faults>>

\* ------------------------------------------------------------------ PUT /api/projects/:id
\* The SET clause is built from every key of the validated body.
ProjectUpdate(r) ==
  \/ /\ Idle(r)
     /\ \E id \in Ids(db, "projects"), raw \in RawProjectUpdates :
          IF ~ValidateProjectUpdate(raw).ok
            THEN EnterDone(r, "projectUpdate", id, 0, raw, 400)
            ELSE IF ~ById(db, "projects", id)
              THEN EnterDone(r, "projectUpdate", id, 0, raw, 404)
              ELSE Enter(r, "projectUpdate", id, 0, ValidateProjectUpdate(raw).value,
                         "update")
     /\ UNCHANGED <<db, txn, gen, faults>>
  \/ /\ At(r, "projectUpdate", "update")
     /\ LET d2 == UpdateRow(db, "projects", req[r].a, req[r].body)
        IN IF UpdateAccepted(d2, "projects", req[r].body)
             THEN /\ db' = d2
                  /\ req' = [req EXCEPT ![r].pc = "get", ![r].body = NoBody]
             ELSE /\ db' = db
                  /\ req' = [req EXCEPT ![r].pc = "done", ![r].status = 500]
     /\ UNCHANGED <<txn, gen, faults>>
     \* The row read back is sent as it is, found or not.
  \/ /\ At(r, "projectUpdate", "get")
     /\ Respond(r, 200)
     /\ UNCHANGED <<db, txn, gen, faults>>

\* Projects being created and updated.
NextDates ==
  \E r \in Reqs :
    \/ ProjectCreate(r)
    \/ ProjectUpdate(r)
    \/ Finish(r)

SpecDates == Init /\ [][NextDates]_vars

\* C17 (as claimed): every projects row with both dates set has its end_date
\* on or after its start_date, whatever POST /api/projects and
\* PUT /api/projects/:id requests were served.
C17_EndNotBeforeStart ==
  \A p \in db.projects : ~EndsBeforeStart(p.start_date, p.end_date)

\* ================================================================== minimum lengths
\* The create routes of the resources whose required text has a minimum
\* length, each slot taking one request after another.
NextCreate ==
  \E r \in Reqs :
    \/ TaskCreate(r) /\ Within(MaxCreated)
    \/ ArticleCreate(r) /\ Within(MaxCreated)
    \/ ChecklistCreate(r) /\ Within(MaxCreated)
    \/ SubtaskAdd(r) /\ Within(MaxCreated)
    \/ MilestoneAdd(r) /\ Within(MaxCreated)
    \/ ResourceAdd(r) /\ Within(MaxCreated)
    \/ Finish(r)

SpecCreate == Init /\ [][NextCreate]_vars

\* The minimum length the claim gives for the required text of each create.
C18_MinLength ==
  [taskCreate |-> [name |-> 3, creator |-> 2],
   articleCreate |-> [headline |-> 5],
   checklistCreate |-> [title |-> 3],
   subtaskAdd |-> [title |-> 2],
   milestoneAdd |-> [title |-> 3],
   resourceAdd |-> [resource_name |-> 2]]

\* Slot r holds a create whose body has a required text shorter than its
\* minimum once trimmed.
C18_TooShort(r) ==
  /\ req[r].op \in DOMAIN C18_MinLength
  /\ \E k \in DOMAIN C18_MinLength[req[r].op] :
       /\ k \in DOMAIN req[r].body
       /\ Len(Trim(req[r].body[k])) < C18_MinLength[req[r].op][k]

C18_ShortStep ==
  \A r \in Reqs :
    (req'[r] # req[r] /\ (C18_TooShort(r) \/ C18_TooShort(r)')) => db' = db

\* C18: a create whose required text (task name or creator, article headline,
\* checklist title, subtask title, milestone title, resource_name) is shorter
\* than its minimum once trimmed is answered with a 400-class status, and no
\* step of the request writes a row to any table.
C18_ShortCreateRejected ==
  /\ [](\A r \in Reqs :
          (C18_TooShort(r) /\ req[r].pc = "done") =>
            (req[r].status >= 400 /\ req[r].status < 500))
  /\ [][C18_ShortStep]_vars

\* A checklist with a one-character title and a resource allocation with a
\* one-character name have both been answered 400 and the rows are as stored.
C18_Witness ==
  /\ \E r \in Reqs : /\ req[r].op = "checklistCreate" /\ req[r].pc = "done"
                     /\ req[r].body = [title |-> " a "] /\ req[r].status = 400
  /\ \E r \in Reqs : /\ req[r].op = "resourceAdd" /\ req[r].pc = "done"
                     /\ req[r].body.resource_name = " c " /\ req[r].status = 400
  /\ db = StoredDb

\* ================================================================== derived hours
\* The bodies clients send to PUT /api/daily-tasks/:id: a status, a status
\* with actual_hours, actual_hours alone.
RawDailyTaskUpdates ==
  { [status |-> "completed"],
    [status |-> "blocked", actual_hours |-> 9],
    [actual_hours |-> 9] }

\* Mutant: the schema knows actual_hours.
ValidateDailyTaskUpdate_Keep(raw) == [ok |-> TRUE, value |-> raw]

\* validateDailyTaskUpdate, as the specification describes it: the keys a
\* client may set are those POST /api/daily-tasks reads from the body;
\* actual_hours is not one of them and is stripped with the other unknown
\* keys; at least one known key is left.
ValidateDailyTaskUpdate(raw) ==
  LET value == AllowedFields(raw, {"title", "description", "assigned_to", "priority",
                                   "status", "due_date", "estimated_hours"})
  IN [ok |-> /\ DOMAIN value # {}
             /\ "status" \in DOMAIN value =>
                  value.status \in {"pending", "in-progress", "completed", "blocked"},
      value |-> value]

\* ------------------------------------------------------------------ PUT /api/daily-tasks/:id
\* The SET clause is built from every key of the validated body.
DailyTaskUpdate(r) ==
  \/ /\ Idle(r)
     /\ \E id \in Ids(db, "daily_tasks"), raw \in RawDailyTaskUpdates :
          IF ~ValidateDailyTaskUpdate(raw).ok
            THEN EnterDone(r, "dailyTaskUpdate", id, 0, raw, 400)
            ELSE IF ~ById(db, "daily_tasks", id)
              THEN EnterDone(r, "dailyTaskUpdate", id, 0, raw, 404)
              ELSE Enter(r, "dailyTaskUpdate", id, 0, ValidateDailyTaskUpdate(raw).value,
                         "update")
     /\ UNCHANGED <<db, txn, gen, faults>>
  \/ /\ At(r, "dailyTaskUpdate", "update")
     /\ LET d2 == UpdateRow(db, "daily_tasks", req[r].a, req[r].body)
        IN IF UpdateAccepted(d2, "daily_tasks", req[r].body)
             THEN /\ db' = d2
                  /\ req' = [req EXCEPT ![r].pc = "get", ![r].body = NoBody]
             ELSE /\ db' = db
                  /\ req' = [req EXCEPT ![r].pc = "done", ![r].status = 500]
     /\ UNCHANGED <<txn, gen, faults>>
     \* The row read back is sent as it is, found or not.
  \/ /\ At(r, "dailyTaskUpdate", "get")
     /\ Respond(r, 200)
     /\ UNCHANGED <<db, txn, gen, faults>>

\* Daily tasks being updated while progress is appended to them.
NextHours ==
  \E r \in Reqs :
    \/ DailyTaskUpdate(r)
    \/ ProgressAdd(r)
    \/ Finish(r)

SpecHours == Init /\ [][NextHours]_vars

\* The step leaves the actual_hours of every daily task as it was.
C19_HoursKept ==
  \A t \in db.daily_tasks :
    \A u \in db'.daily_tasks : u.id = t.id => u.actual_hours = t.actual_hours

C19_HoursStep ==
  \/ C19_HoursKept
  \/ \E r \in Reqs : Step(r, "progressAdd", "update")

ChecklistUpdate(r) ==
  \/ /\ Idle(r)
     /\ \E id \in Ids(db, "checklists"), raw \in RawBodies.checklists :
          IF ~ValidateChecklist(raw).ok
            THEN EnterDone(r, "checklistUpdate", id, 0, raw, 400)
            ELSE IF ~ById(db, "checklists", id)
              THEN EnterDone(r, "checklistUpdate", id, 0, raw, 404)
              ELSE Enter(r, "checklistUpdate", id, 0, ValidateChecklist(raw).value,
                         "update")
     /\ UNCHANGED <<db, txn, gen, faults>>
  \/ /\ At(r, "checklistUpdate", "update")
     /\ LET set == [title |-> Trim(req[r].body.title),
                    description |-> req[r].body.description,
                    theme |-> req[r].body.theme]
            d2 == UpdateRow(db, "checklists", req[r].a, set)
        IN IF UpdateAccepted(d2, "checklists", set)
             THEN /\ db' = d2
                  /\ req' = [req EXCEPT ![r].pc = "get", ![r].body = NoBody]
             ELSE /\ db' = db
                  /\ req' = [req EXCEPT ![r].pc = "done", ![r].status = 500]
     /\ UNCHANGED <<txn, gen, faults>>
     \* The row read back is sent as it is, found or not.
  \/ /\ At(r, "checklistUpdate", "get")
     /\ Respond(r, 200)
     /\ UNCHANGED <<db, txn, gen, faults>>

\* Checklists and articles being updated.
NextPartial ==
  \E r \in Reqs :
    \/ ChecklistUpdate(r)
    \/ ArticleUpdate(r)
    \/ Finish(r)

SpecPartial == Init /\ [][NextPartial]_vars

\* A body that carries some of the fields of its resource and no other key,
\* each with a value its schema accepts.
C20_SomeFields(r) ==
  \/ req[r].op = "checklistUpdate"
       /\ req[r].body \in {[title |-> "Plan"], [description |-> "Later"]}
  \/ req[r].op = "articleUpdate" /\ req[r].body = [headline |-> "Late news"]

\* No body of RawBodies.checklists carries a theme or, with a title, a
\* description: a step keeps the theme of every checklist, and changes a
\* description only when it stores the one body that carries it.
C20_UnsuppliedKept ==
  \A x \in db.checklists : \A y \in db'.checklists :
    y.id = x.id => /\ y.theme = x.theme
                   /\ y.description \in {x.description, "Later"}

\* C20 (as claimed): PUT /api/checklists/:id and PUT /api/articles/:id with
\* only some of the fields are not rejected for the fields they lack, and
\* leave every column the body does not carry at its previous value.
C20_PartialUpdate ==
  /\ [](\A r \in Reqs :
          (C20_SomeFields(r) /\ req[r].pc = "done") => req[r].status # 400)
  /\ [][C20_UnsuppliedKept]_vars

\* ================================================================== deleting a linked task
C21_DeleteStep ==
  \A r \in Reqs :
    (/\ Idle(r)
     /\ req'[r].op = "taskDelete"
     /\ req'[r].status = 200)
    => /\ ~\E l \in db'.project_tasks : l.task_id = req'[r].a
       /\ db'.project_tasks = {l \in db.project_tasks : l.task_id # req'[r].a}
       /\ db'.projects = db.projects
       /\ db'.project_milestones = db.project_milestones
       /\ db'.resource_allocations = db.resource_allocations

NextDayGone ==
  \E r \in Reqs :
    \/ DailyTaskDelete(r) /\ Within(MaxTouched)
    \/ ProgressAdd(r) /\ Within(MaxTouched)
    \/ TxnCommit(r)
    \/ TxnRollback(r)
    \/ Finish(r)

SpecDayGone == Init /\ [][NextDayGone]_vars

\* A statement of the delete in slot r leaves the rows of the other daily
\* tasks and their progress rows as they were.
C22_OthersKept ==
  \A r \in Reqs :
    (Step(r, "dailyTaskDelete", "delProgress") \/ Step(r, "dailyTaskDelete", "delTask"))
    => /\ {t \in db'.daily_tasks : t.id # req[r].a}
            = {t \in db.daily_tasks : t.id # req[r].a}
       /\ {p \in db'.daily_task_progress : p.daily_task_id # req[r].a}
            = {p \in db.daily_task_progress : p.daily_task_id # req[r].a}

\* C22: once DELETE /api/daily-tasks/:id has been answered 200 the daily task
\* and every daily_task_progress row of it are gone, and the statements of
\* the delete change no other daily task and no progress row of another.
C22_DailyTaskDeleteRemovesProgress ==
  /\ [](\A r \in Reqs :
          (req[r].op = "dailyTaskDelete" /\ req[r].pc = "done" /\ req[r].status = 200)
          => /\ ~ById(db, "daily_tasks", req[r].a)
             /\ ProgressOf(db, req[r].a) = {})
  /\ [][C22_OthersKept]_vars

\* Daily task 2, stored with a progress row, has been deleted with 200 and
\* daily task 1 is there as stored.
C22_Witness ==
  /\ \E r \in Reqs : /\ req[r].op = "dailyTaskDelete" /\ req[r].pc = "done"
                     /\ req[r].a = 2 /\ req[r].status = 200
  /\ ~ById(db, "daily_tasks", 2)
  /\ ProgressOf(db, 2) = {}
  /\ \E t \in StoredDb.daily_tasks : t.id = 1 /\ t \in db.daily_tasks

\* ================================================================== start and shutdown
\* The position of startServer is held in a slot of its own: a is 1 once
\* this.db holds an open connection, b counts the steps of Database.init that
\* have completed (mkdir, open, pragmas, createTables), c is 1 once
\* Database.close has completed, tmp is the exit code.

\* Mutant: app.listen is not held back until init has resolved.
Listening_Always == TRUE

\* app.listen has been called and the process has received no signal.
Listening == \E p \in Reqs : At(p, "startServer", "listening")

\* ------------------------------------------------------------------ startServer
\* await database.init(), one disjunct per awaited step, each of which the
\* system may fail; then app.listen.  The callback of new sqlite3.Database
\* throws outside init's try block when the file cannot be opened, which ends
\* the process; a failed PRAGMA or CREATE TABLE goes to init's catch, which
\* closes the connection and rethrows to startServer's process.exit(1).
StartServer(r) ==
  \/ /\ \A q \in Reqs : Idle(q)
     /\ db = StoredDb
     /\ Enter(r, "startServer", 0, 0, NoBody, "mkdir")
     /\ UNCHANGED <<db, txn, gen, faults>>
  \/ /\ At(r, "startServer", "mkdir")
     /\ \E ok \in BOOLEAN :
          IF ok THEN req' = [req EXCEPT ![r].pc = "open", ![r].b = 1]
                ELSE req' = [req EXCEPT ![r].pc = "exit", ![r].tmp = 1]
     /\ UNCHANGED <<db, txn, gen, faults>>
  \/ /\ At(r, "startServer", "open")
     /\ \E ok \in BOOLEAN :
          IF ok THEN req' = [req EXCEPT ![r].pc = "pragma", ![r].a = 1, ![r].b = 2]
                ELSE req' = [req EXCEPT ![r].pc = "exited", ![r].tmp = 1]
     /\ UNCHANGED <<db, txn, gen, faults>>
  \/ /\ At(r, "startServer", "pragma")
     /\ \E ok \in BOOLEAN :
          IF ok THEN req' = [req EXCEPT ![r].pc = "tables", ![r].b = 3]
                ELSE req' = [req EXCEPT ![r].pc = "close"]
     /\ UNCHANGED <<db, txn, gen, faults>>
  \/ /\ At(r, "startServer", "tables")
     /\ \E ok \in BOOLEAN :
          IF ok THEN req' = [req EXCEPT ![r].pc = "listen", ![r].b = 4]
                ELSE req' = [req EXCEPT ![r].pc = "close"]
     /\ UNCHANGED <<db, txn, gen, faults>>
     \* if (this.db) await this.close(); throw error
  \/ /\ At(r, "startServer", "close")
     /\ req' = [req EXCEPT ![r].pc = "exit", ![r].c = 1, ![r].tmp = 1]
     /\ UNCHANGED <<db, txn, gen, faults>>
     \* process.exit(1)
  \/ /\ At(r, "startServer", "exit")
     /\ req' = [req EXCEPT ![r].pc = "exited"]
     /\ UNCHANGED <<db, txn, gen, faults>>
  \/ /\ At(r, "startServer", "listen")
     /\ req' = [req EXCEPT ![r].pc = "listening"]
     /\ UNCHANGED <<db, txn, gen, faults>>

\* ------------------------------------------------------------------ process.on('SIGINT'), process.on('SIGTERM')
\* await database.close(); process.exit(0).  The HTTP server is not closed
\* and the handlers in flight are not waited for.
Shutdown(r) ==
  \/ /\ At(r, "startServer", "listening")
     /\ req' = [req EXCEPT ![r].pc = "closing"]
     /\ UNCHANGED <<db, txn, gen, faults>>
  \/ /\ At(r, "startServer", "closing")
     /\ req' = [req EXCEPT ![r].pc = "exited", ![r].c = 1, ![r].tmp = 0]
     /\ UNCHANGED <<db, txn, gen, faults>>

\* The process from its start to its exit, serving progress appends while
\* it listens.
NextServer ==
  \E r \in Reqs :
    \/ StartServer(r)
    \/ Shutdown(r)
    \/ Listening /\ ProgressAdd(r)
    \/ Listening /\ Finish(r)

SpecServer == Init /\ [][NextServer]_vars

\* A handler is entered only while the process listens, with all four steps
\* of init completed and the connection not closed.
C23_AcceptStep ==
  \A r \in Reqs :
    (Idle(r) /\ req'[r].op \notin {"none", "startServer"})
    => \E p \in Reqs : /\ At(p, "startServer", "listening")
                       /\ req[p].b = 4 /\ req[p].c = 0

\* The process is leaving with exit code 1: init did not complete, the
\* connection it had opened is closed, no handler was entered and the store
\* is as it was found.
C23_FailedInit ==
  \A p \in Reqs :
    (req[p].op = "startServer" /\ req[p].pc \in {"exit", "exited"} /\ req[p].tmp = 1)
    => /\ req[p].b < 4
       /\ req[p].a = 1 => req[p].c = 1
       /\ \A q \in Reqs \ {p} : Idle(q)
       /\ db = StoredDb

\* C23: requests are accepted only after database.init() has completed; when
\* a step of init fails, the connection that was opened is closed and the
\* process exits having served no request.
C23_ServesOnlyAfterInit == []C23_FailedInit /\ [][C23_AcceptStep]_vars

\* createTables or a PRAGMA failed on the open connection: the connection has
\* been closed and the process has exited with code 1.
C23_Witness ==
  \E p \in Reqs : /\ At(p, "startServer", "exited")
                  /\ req[p].a = 1 /\ req[p].c = 1 /\ req[p].tmp = 1

\* C24 (as claimed): when the process has exited on a signal, close has
\* completed and no progress append is left between its INSERT and the UPDATE
\* of actual_hours.
C24_NoWriteAbandoned ==
  \A p \in Reqs :
    (At(p, "startServer", "exited") /\ req[p].tmp = 0)
    => /\ req[p].c = 1
       /\ \A q \in Reqs : req[q].op = "progressAdd" => req[q].pc \notin {"sum", "update"}

\* ================================================================== task status
\* The UPDATE of a PUT whose body carries a status stores that status,
\* whatever status and completed flag the row had.
C25_StatusStep ==
  \A r \in Reqs :
    (Step(r, "taskUpdate", "update") /\ "status" \in DOMAIN req[r].body)
    => \A t \in db.tasks : t.id = req[r].a =>
         \E u \in db'.tasks : u.id = t.id /\ u.status = req[r].body.status

\* The validation of a PUT whose body carries a status rejects it with 400
\* exactly when the status is outside the enum.
C25_EnumStep ==
  \A r \in Reqs :
    (Idle(r) /\ req'[r].op = "taskUpdate" /\ "status" \in DOMAIN req'[r].body)
    => (req'[r].status = 400 <=>
          req'[r].body.status \notin {"pending", "approved", "rejected"})

\* C25: PUT /api/tasks/:id is answered 400 for a status outside {pending,
\* approved, rejected} and for no body whose status is in the enum, and the
\* UPDATE stores the status of the body without looking at the row's current
\* status or completed flag.
C25_NoTransitionGuard == [][C25_EnumStep /\ C25_StatusStep]_vars

\* Task 1, approved by Bob earlier, is pending again, and task 2, rejected
\* and completed, has an accepted PUT with status approved about to be
\* applied.
C25_Witness ==
  /\ \E t \in db.tasks : t.id = 1 /\ t.status = "pending" /\ t.approver = "Bob"
  /\ \E t \in db.tasks : t.id = 2 /\ t.status = "rejected" /\ t.completed = 1
  /\ \E r \in Reqs : /\ At(r, "taskUpdate", "update") /\ req[r].a = 2
                     /\ "status" \in DOMAIN req[r].body
                     /\ req[r].body.status = "approved"

\* ================================================================== the task list
\* The bodies of the PUT requests behind the buttons renderTasks shows for
\* task t: Approve (with the approver the prompt returned) and Reject while
\* the task is pending and not completed, Set Timer and Complete while it is
\* approved and not completed.
Offered(t) ==
  IF t.completed = 0 /\ t.status = "pending"
    THEN {[status |-> "approved", approver |-> "Bob"], [status |-> "rejected"]}
    ELSE IF t.completed = 0 /\ t.status = "approved"
      THEN {[timer |-> "10:00"], [completed |-> TRUE]}
      ELSE {}

\* The request that enters slot r comes from a button of the task list: its
\* body is one the list offers for the task as the store holds it at that
\* moment.
Clicked(r) ==
  Idle(r) => /\ req'[r].pc = "update"
             /\ \E t \in db.tasks : t.id = req'[r].a /\ req'[r].body \in Offered(t)

\* Tasks driven through the buttons of the task list, Delete among them.
NextList ==
  \E r \in Reqs :
    \/ TaskUpdate(r) /\ Clicked(r)
    \/ TaskDelete(r)
    \/ Finish(r)

SpecList == Init /\ [][NextList]_vars

\* A step leaves a rejected task rejected and the status of a completed task
\* as it was, and makes no task pending that was not.
C26_TerminalStep ==
  \A t \in db.tasks : \A u \in db'.tasks :
    u.id = t.id => /\ t.status = "rejected" => u.status = "rejected"
                   /\ t.completed = 1 => u.status = t.status
                   /\ u.status = "pending" => t.status = "pending"

\* C26 (as claimed): driven through the buttons of the task list, a rejected
\* task stays rejected, a completed task keeps its status, no task returns to
\* pending, and every approved task has an approver.
C26_TerminalStates ==
  /\ [](\A t \in db.tasks : t.status = "approved" => t.approver # "NULL")
  /\ [][C26_TerminalStep]_vars

\* ================================================================== acknowledged writes
\* The ROLLBACK of the request in slot r keeps every task whose create
\* another request has had answered 201.
C27_RollbackStep ==
  \A r \in Reqs : \A q \in Reqs \ {r} :
    (/\ req[r].pc = "rollback" /\ req'[r].pc = "done"
     /\ req[q].op = "taskCreate" /\ req[q].pc = "done" /\ req[q].status = 201
     /\ ById(db, "tasks", req[q].a))
    => ById(db', "tasks", req[q].a)

\* C27 (as claimed): the ROLLBACK of a cascade delete does not undo a write
\* that another request has had acknowledged: a task whose POST was answered
\* 201 is still there after the ROLLBACK of a DELETE /api/projects/:id.
C27_AcknowledgedWriteKept == [][C27_RollbackStep]_vars

\* ================================================================== interleaved cascades
\* A cascade delete that arrives for a parent that is there, while the
\* cascade delete of another parent is in flight, is not answered 500 on
\* arrival.
C28_ArrivalStep ==
  \A r \in Reqs :
    (/\ Idle(r)
     /\ req'[r].op \in {"checklistDelete", "projectDelete", "dailyTaskDelete"}
     /\ ById(db, DeleteOps[req'[r].op], req'[r].a)
     /\ \E q \in Reqs \ {r} :
          /\ req[q].op \in {"checklistDelete", "projectDelete", "dailyTaskDelete"}
          /\ req[q].pc # "done" /\ req[q].a # 0
          /\ <<req[q].op, req[q].a>> # <<req'[r].op, req'[r].a>>)
    => ~(req'[r].pc = "done" /\ req'[r].status = 500)

\* C28 (as claimed): a cascade delete of an existing parent does not fail
\* because the transaction of another cascade delete, on another parent, is
\* open on the shared connection; once answered 200 its parent is gone.
C28_InterleavedCascadesSucceed ==
  /\ [](\A r \in Reqs :
          (req[r].op \in {"checklistDelete", "projectDelete", "dailyTaskDelete"}
             /\ req[r].pc = "done" /\ req[r].status = 200)
          => ~ById(db, DeleteOps[req[r].op], req[r].a))
  /\ [][C28_ArrivalStep]_vars

\* ================================================================== update of a deleted row
\* An UPDATE that finds its row gone is answered 404, and a 200 is sent with
\* the row that was read back.
C29_UpdateStep ==
  \A r \in Reqs :
    /\ (Step(r, "taskUpdate", "update") /\ ~ById(db, "tasks", req[r].a))
         => (req'[r].pc = "done" /\ req'[r].status = 404)
    /\ (Step(r, "taskUpdate", "get") /\ req'[r].status = 200)
         => ById(db, "tasks", req[r].a)

\* C29 (as claimed): PUT /api/tasks/:id answers 200 only when its row was
\* there for the UPDATE and is returned; when a DELETE of the id takes effect
\* between the existence check and the UPDATE, the PUT is answered 404.
C29_UpdateOfDeletedIs404 == [][C29_UpdateStep]_vars

\* ================================================================== referential integrity
\* Children being created while their parents are deleted, up to MaxTouched
\* rows removed, added or changed.
NextRefs ==
  \E r \in Reqs :
    \/ SubtaskAdd(r) /\ Within(MaxTouched)
    \/ ChecklistDelete(r) /\ Within(MaxTouched)
    \/ MilestoneAdd(r) /\ Within(MaxTouched)
    \/ LinkAdd(r) /\ Within(MaxTouched)
    \/ ProjectDelete(r) /\ Within(MaxTouched)
    \/ TaskDelete(r) /\ Within(MaxTouched)
    \/ DailyTaskDelete(r) /\ Within(MaxTouched)
    \/ TxnCommit(r)
    \/ TxnRollback(r)
    \/ Finish(r)

SpecRefs == Init /\ [][NextRefs]_vars

====
